---- MODULE Spec2Model ----
(***************************************************************************)
(* Model of the retry/timeout helper of el-professor-cli                   *)
(* (RetryHelper.executeWithRetry, calculateDelay, sleep,                   *)
(* executeWithTimeout) together with the retryability predicate            *)
(* ErrorHandler.isRetryableError it consults.                              *)
(*                                                                         *)
(* Three specifications share the variables:                               *)
(*   Spec        one invocation of executeWithRetry                        *)
(*   SpecDelay   calculateDelay applied to bounded inputs                  *)
(*   SpecTimeout one invocation of executeWithTimeout                      *)
(*                                                                         *)
(* Numbers: delays are JavaScript numbers.  exponentialBase is modelled as *)
(* a rational <<num, den>> and every intermediate delay as a rational      *)
(* <<n, d>> with d > 0, so that Math.floor is a real operation.            *)
(* Math.random() is a draw k / RandDen with k in 0 .. RandDen-1, i.e. a    *)
(* value of [0, 1).                                                        *)
(***************************************************************************)
EXTENDS Integers, Sequences, FiniteSets, TLC

VARIABLES
  options,    \* the Partial<RetryOptions> override passed by the caller
  context,    \* the optional context label
  config,     \* the effective RetryOptions (defaults merged with options)
  attempt,    \* loop counter of executeWithRetry
  lastError,  \* the local lastError
  pc,         \* position of the executeWithRetry invocation
  calls,      \* number of times operation() has been invoked
  inflight,   \* number of operation() promises not yet settled
  opLog,      \* outcome of every settled operation() call, in order
  returned,   \* values executeWithRetry resolved with
  raised,     \* values executeWithRetry rejected with
  delays,     \* argument of every sleep() started, in order
  warnings,   \* every logger.warn call, in order
  debugs,     \* number of logger.debug calls
  classified, \* number of ErrorHandler.isRetryableError evaluations
  sleepTimers, \* number of sleep() timers started and not yet fired
  trace,      \* the calls, warnings and sleeps of the invocation, in program order
  logLevel,   \* Logger.logLevel
  consoleOut, \* what the Logger has written to the console, in order
  dConfig,    \* SpecDelay: the config handed to calculateDelay
  dAttempt,   \* SpecDelay: the attempt handed to calculateDelay (0: none yet)
  dRnd,       \* SpecDelay: the Math.random() draw (numerator over RandDen)
  dDelay,     \* SpecDelay: the value calculateDelay returned
  timeoutMs,  \* SpecTimeout: the timeoutMs argument
  tContext,   \* SpecTimeout: the context argument
  tOp,        \* SpecTimeout: the wrapped operation (when and how it settles)
  tNow,       \* SpecTimeout: virtual time in ms since the call
  tTurn,      \* SpecTimeout: "initial" (the calling turn and its microtasks) | "loop"
  tOpState,   \* SpecTimeout: "pending" | "resolved" | "rejected"
  tTimer,     \* SpecTimeout: "pending" | "fired"  (the setTimeout handle)
  tTimeoutPromise, \* SpecTimeout: state of timeoutPromise
  tRace,      \* SpecTimeout: settlement of the promise returned to the caller
  tSettled,   \* SpecTimeout: how many settle attempts reached Promise.race
  mOptions,   \* SpecMerge: the options argument, key by key
  mConfig,    \* SpecMerge: the config object built from it
  mPc,        \* SpecMerge: "entry" | "built"
  serverConfigs, \* SpecServices: names of the configs given to initializeServers
  clients,    \* MCPManager.clients (its keys; each key has its own Client)
  transports, \* MCPManager.transports (its keys)
  connState,  \* per server: "none" | "connecting" | "connected" | "failed"
  connError,  \* per server: what client.connect rejected with ("none" if it did not)
  connectCalls, \* per server: number of client.connect calls
  initPromises, \* per server: the promise of initializeServer(config)
  initPc,     \* initializeServers: "idle" | "pending" | "resolved" | "rejected"
  closeSnapshot, \* closeAll: the clients it called close() on
  closeCalls, \* per server: number of client.close calls
  closeState, \* per server: "none" | "closing" | "closed" | "failed"
  closePromises, \* per server: the promise client.close().catch(...)
  closePc,    \* closeAll: "idle" | "pending" | "resolved" | "rejected"
  mcpConsole, \* console.log / console.error calls of MCPManager, in order
  genMethod,  \* GenAIService: the method called
  genPc,      \* GenAIService: "idle" | "pending" | "returned" | "thrown"
  sdkCalls,   \* GenAIService: number of calls of the SDK
  sdkError,   \* GenAIService: what the SDK call rejected with ("none" if it did not)
  genThrown,  \* GenAIService: the error thrown to the caller
  genConsole, \* GenAIService: number of console.error calls
  conversationHistory, \* ElProfessor.conversationHistory
  appended,   \* SpecAgent: every message appended since the last clearHistory
  agentClock, \* SpecAgent: new Date() of the next message (one tick per append)
  reqPc,      \* SpecAgent: where the request in progress stands ("idle" if none)
  streamLeft, \* SpecAgent: chunks the SDK stream has still to deliver
  fullResponse, \* chatStream: the chunks concatenated so far
  yielded,    \* SpecAgent: the chunks handed to the consumer, in order
  agentError, \* SpecAgent: the error the last request threw to its caller
  failedRequests, \* SpecAgent: requests that threw or were abandoned
  streamRequests, \* SpecAgent: chatStream calls made
  classifyArg,   \* SpecClassify: the value handed to isRetryableError
  classifyResults, \* SpecClassify: what each call returned, in order
  envLogLevel,   \* SpecLogger: process.env.LOG_LEVEL (characters, or unset)
  loggerCreated, \* SpecLogger: Logger.instance exists
  loggerLevel,   \* SpecLogger: Logger.logLevel
  loggerCalls,   \* SpecLogger: every error/warn/info/debug call, in order
  loggerConsole, \* SpecLogger: what reached the console, in order
  cliPc,      \* SpecCLI: "starting" | "prompt" | "handling" | "shuttingDown" | "exited"
  cliErrors,  \* SpecCLI: errors printed by handleInput
  prompts,    \* SpecCLI: rl.question calls
  finished,   \* SpecCLI: handleInput calls that have returned
  exitCode,   \* SpecCLI: argument of process.exit (-1: not called)
  exitReason, \* SpecCLI: what called process.exit
  rlClosed    \* SpecCLI: rl.close() was called

retryVars == <<options, context, config, attempt, lastError, pc, calls,
               inflight, opLog, returned, raised, delays, warnings, debugs,
               classified, sleepTimers, trace,
               logLevel, consoleOut>>
delayVars == <<dConfig, dAttempt, dRnd, dDelay>>
timeoutVars == <<timeoutMs, tContext, tOp, tNow, tTurn, tOpState, tTimer,
                 tTimeoutPromise, tRace, tSettled>>
mergeVars == <<mOptions, mConfig, mPc>>
mcpVars == <<serverConfigs, clients, transports, connState, connError,
             connectCalls, initPromises, initPc, closeSnapshot, closeCalls,
             closeState, closePromises, closePc, mcpConsole>>
genVars == <<genMethod, genPc, sdkCalls, sdkError, genThrown, genConsole>>
serviceVars == <<mcpVars, genVars>>
agentVars == <<conversationHistory, appended, agentClock, reqPc, streamLeft,
               fullResponse, yielded, agentError, failedRequests, streamRequests>>
classifyVars == <<classifyArg, classifyResults>>
loggerVars == <<envLogLevel, loggerCreated, loggerLevel, loggerCalls, loggerConsole>>
cliVars == <<cliPc, cliErrors, prompts, finished, exitCode, exitReason,
             rlClosed>>
appVars == <<agentVars, classifyVars, loggerVars, cliVars>>
vars == <<retryVars, delayVars, timeoutVars, mergeVars, serviceVars, appVars>>

----------------------------------------------------------------------------
(* Bounds of the model *)

\* largest maxAttempts an override supplies (the default 3 is always present)
MaxAttemptsOverride == 2
\* Math.random() is drawn from { k / RandDen : k \in 0 .. RandDen-1 }
RandDen == 4
\* largest attempt index handed to calculateDelay in SpecDelay
MaxDelayAttempt == 6
\* largest virtual time (ms) in SpecTimeout
MaxTime == 4
\* number of MCP servers the configuration can name
MaxServers == 2
\* messages appended to the history over the life of an ElProfessor
MaxAppends == 22
\* requests that fail or are abandoned
MaxFailures == 1
\* chatStream calls
MaxStreams == 1
\* chunks an SDK stream delivers
MaxChunks == 2

----------------------------------------------------------------------------
(* Values *)

\* "absent" marks a key the Partial<RetryOptions> does not carry
Absent == "absent"

\* JavaScript null / undefined
Null == [cls |-> "null", message |-> <<>>, id |-> 0]

\* An error object: its class, its message (a sequence of text fragments)
\* and an identity (the operation() call that created it; 0 for errors the
\* helper itself creates).
Err(cls, message, id) == [cls |-> cls, message |-> message, id |-> id]

\* The class chain of src/unnamed/part_001:505-558 (instanceof)
InstanceOf(e, cls) ==
  \/ e.cls = cls
  \/ cls = "ElProfessorError" /\ e.cls \in {"ConfigurationError", "MCPConnectionError", "GenAIError"}
  \/ cls = "Error" /\ e.cls \in {"ElProfessorError", "ConfigurationError", "MCPConnectionError", "GenAIError"}

\* The text of a message held as fragments
RECURSIVE Join(_)
Join(message) ==
  IF message = <<>> THEN "" ELSE Head(message) \o Join(Tail(message))

\* String.prototype.includes on a message held as text fragments
includes(message, pattern) == \E i \in 1 .. Len(message) : message[i] = pattern

\* Mutant: every GenAIError is retryable
isRetryableError_AnyGenAI(error) ==
  InstanceOf(error, "MCPConnectionError") \/ InstanceOf(error, "GenAIError")

\* ErrorHandler.isRetryableError
isRetryableError(error) ==
  IF InstanceOf(error, "MCPConnectionError") THEN TRUE
  ELSE IF InstanceOf(error, "GenAIError")
       THEN \/ includes(error.message, "rate limit")
            \/ includes(error.message, "timeout")
            \/ includes(error.message, "service unavailable")
       ELSE FALSE

\* JavaScript truthiness of a thrown value
Truthy(v) == v.cls # "null"

\* new Error('Max retry attempts exceeded')
MaxAttemptsError == Err("Error", <<"Max retry attempts exceeded">>, 0)

\* `${context}` in a template literal
ContextText(ctx) == IF ctx = Absent THEN "undefined" ELSE ctx

\* Mutant: the context is left out of the message
TimeoutError_NoContext(ms, ctx) ==
  Err("Error", <<"Operation timed out after ", ToString(ms), "ms">>, 0)

\* Mutant: the timeout error is an MCPConnectionError
TimeoutError_Connection(ms, ctx) ==
  Err("MCPConnectionError",
      <<"Operation timed out after ", ToString(ms), "ms in ", ContextText(ctx)>>, 0)

\* new Error(`Operation timed out after ${timeoutMs}ms in ${context}`)
TimeoutError(ms, ctx) ==
  Err("Error", <<"Operation timed out after ", ToString(ms), "ms in ", ContextText(ctx)>>, 0)

\* What an operation that is an executeWithTimeout wrapper rejects with
\* when its timer fires first
WrapperTimeout == TimeoutError(1000, "fetch")

\* What the wrapped operation can reject with (before identity is attached)
ErrorKinds ==
  { [cls |-> "MCPConnectionError", message |-> <<"MCP Server '", "aws", "': ", "failed">>],
    [cls |-> "GenAIError", message |-> <<"rate limit", " exceeded">>],
    [cls |-> "GenAIError", message |-> <<"invalid api key">>],
    [cls |-> "Error", message |-> <<"boom">>],
    [cls |-> WrapperTimeout.cls, message |-> WrapperTimeout.message],
    [cls |-> "null", message |-> <<>>] }

\* What the wrapped operation can resolve with
Results == {"ok", "success"}

----------------------------------------------------------------------------
(* Effective configuration *)

\* The defaults of executeWithRetry; exponentialBase 2 is the rational 2/1
Defaults ==
  [maxAttempts |-> 3, baseDelay |-> 1000, maxDelay |-> 10000,
   exponentialBase |-> <<2, 1>>, jitter |-> TRUE]

\* A key of the Partial<RetryOptions>: carried with a value, or not carried
Key(v) == [has |-> TRUE, val |-> v]
NoKey(v) == [has |-> FALSE, val |-> v]

\* Mutant: the override is ignored
MergeOptions_DefaultsOnly(opts) == Defaults

\* { ...defaults, ...options }: a key the override carries wins
MergeOptions(opts) ==
  LET pick(f) == IF opts[f].has THEN opts[f].val ELSE Defaults[f]
  IN  [maxAttempts |-> pick("maxAttempts"), baseDelay |-> pick("baseDelay"),
       maxDelay |-> pick("maxDelay"), exponentialBase |-> pick("exponentialBase"),
       jitter |-> pick("jitter")]

\* The overrides the model draws from
OptionSpace ==
  [maxAttempts : {NoKey(0)} \cup {Key(n) : n \in -1 .. MaxAttemptsOverride},
   baseDelay : {NoKey(0), Key(0), Key(10)},
   maxDelay : {NoKey(0), Key(15)},
   exponentialBase : {NoKey(<<1, 1>>), Key(<<3, 2>>)},
   jitter : {NoKey(FALSE), Key(FALSE)}]

----------------------------------------------------------------------------
(* calculateDelay *)

RECURSIVE Pow(_, _)
Pow(b, e) == IF e <= 0 THEN 1 ELSE b * Pow(b, e - 1)

\* Math.min(x, m) for a rational x = <<n, d>> and an integer m
RatMin(x, m) == IF x[1] <= m * x[2] THEN x ELSE <<m * x[2], x[2]>>

\* Math.max(0, x) for a rational x
RatMax0(x) == IF x[1] < 0 THEN <<0, 1>> ELSE x

\* Math.floor(x) for a rational x = <<n, d>>, d > 0
Floor(x) == x[1] \div x[2]

\* config.baseDelay * Math.pow(config.exponentialBase, attempt - 1)
exponentialDelay(att, cfg) ==
  <<cfg.baseDelay * Pow(cfg.exponentialBase[1], att - 1),
    Pow(cfg.exponentialBase[2], att - 1)>>

\* delay + (Math.random() - 0.5) * 2 * (delay * 0.25) with Math.random() = k/RandDen:
\* delay * (1 + (2k - RandDen) / (4 * RandDen))
WithJitter(x, k) == <<x[1] * (3 * RandDen + 2 * k), x[2] * 4 * RandDen>>

\* Mutant: the exponent is attempt instead of attempt - 1
calculateDelay_ZeroBased(att, cfg, k) ==
  LET capped == RatMin(exponentialDelay(att + 1, cfg), cfg.maxDelay)
  IN  Floor(IF cfg.jitter THEN RatMax0(WithJitter(capped, k)) ELSE capped)

\* Mutant: the jitter is +-50% of the delay
calculateDelay_WideJitter(att, cfg, k) ==
  LET capped == RatMin(exponentialDelay(att, cfg), cfg.maxDelay)
  IN  Floor(IF cfg.jitter
            THEN RatMax0(<<capped[1] * (RandDen + 2 * k), capped[2] * 2 * RandDen>>)
            ELSE capped)

\* RetryHelper.calculateDelay; k is the Math.random() draw (k / RandDen)
calculateDelay(att, cfg, k) ==
  LET capped == RatMin(exponentialDelay(att, cfg), cfg.maxDelay)
  IN  Floor(IF cfg.jitter THEN RatMax0(WithJitter(capped, k)) ELSE capped)

----------------------------------------------------------------------------
(* executeWithRetry *)

\* The value a rejected operation() call throws: an Error object created by
\* that call, or null
Thrown(kind, call) ==
  IF kind.cls = "null" THEN Null ELSE Err(kind.cls, kind.message, call)

\* Mutant: the loop runs one attempt too many
LoopCondition_OffByOne(att, cfg) == att <= cfg.maxAttempts + 1

\* Mutant: the loop stops one attempt early
LoopCondition_Strict(att, cfg) == att < cfg.maxAttempts

\* for (...; attempt <= config.maxAttempts; ...)
LoopCondition(att, cfg) == att <= cfg.maxAttempts

\* Mutant: the fallback error always replaces the last error
FinalError_Generic(err) == MaxAttemptsError

\* Mutant: lastError is thrown as it is, without the fallback
FinalError_NoFallback(err) == err

\* throw lastError || new Error('Max retry attempts exceeded')
FinalError(err) == IF Truthy(err) THEN err ELSE MaxAttemptsError

\* enum LogLevel
ERROR == 0
WARN == 1
INFO == 2
DEBUG == 3
LogLevels == {ERROR, WARN, INFO, DEBUG}

\* Logger.warn: the message reaches console.warn only when logLevel >= WARN
\* (the timestamp that formatMessage puts in front is left out)
warn(out, level, w) ==
  IF level >= WARN
  THEN Append(out, [level |-> "WARN", message |-> w.text, args |-> w.error])
  ELSE out

\* An entry of the trace: an operation() call, a logger.warn call or a
\* sleep() call, with the attempt it belongs to and the delay it carries
Event(ev, att, delay) == [ev |-> ev, attempt |-> att, delay |-> delay]

\* The text of the logger.warn call
WarnText(att, cfg, ctx, delay) ==
  "Attempt " \o ToString(att) \o "/" \o ToString(cfg.maxAttempts)
    \o " failed in " \o ContextText(ctx) \o ", retrying in "
    \o ToString(delay) \o "ms"

InitRetryIdle ==
  /\ options = [f \in {"maxAttempts", "baseDelay", "maxDelay", "exponentialBase", "jitter"}
                  |-> NoKey(0)]
  /\ context = Absent
  /\ config = Defaults
  /\ attempt = 1
  /\ lastError = Null
  /\ pc = "idle"
  /\ calls = 0 /\ inflight = 0
  /\ opLog = <<>> /\ returned = <<>> /\ raised = <<>>
  /\ delays = <<>> /\ warnings = <<>>
  /\ debugs = 0 /\ classified = 0 /\ sleepTimers = 0
  /\ trace = <<>>
  /\ logLevel = INFO /\ consoleOut = <<>>

\* executeWithRetry is entered: config is built, lastError = null, attempt = 1
InitRetry ==
  /\ options \in OptionSpace
  /\ context \in {Absent, "connect"}
  /\ config = MergeOptions(options)
  /\ attempt = 1
  /\ lastError = Null
  /\ pc = "loop"
  /\ calls = 0 /\ inflight = 0
  /\ opLog = <<>> /\ returned = <<>> /\ raised = <<>>
  /\ delays = <<>> /\ warnings = <<>>
  /\ debugs = 0 /\ classified = 0 /\ sleepTimers = 0
  /\ trace = <<>>
  /\ logLevel \in LogLevels /\ consoleOut = <<>>

\* The loop condition holds: operation() is called and awaited
InvokeOperation ==
  /\ pc = "loop"
  /\ LoopCondition(attempt, config)
  /\ calls' = calls + 1
  /\ inflight' = inflight + 1
  /\ trace' = Append(trace, Event("call", calls + 1, 0))
  /\ pc' = "await"
  /\ UNCHANGED <<options, context, config, attempt, lastError, opLog, returned,
                 raised, delays, warnings, debugs, classified>>
  /\ UNCHANGED <<sleepTimers, logLevel, consoleOut, delayVars, timeoutVars, mergeVars, serviceVars, appVars>>

\* The loop condition fails: throw lastError || new Error(...)
LoopExit ==
  /\ pc = "loop"
  /\ ~LoopCondition(attempt, config)
  /\ raised' = Append(raised, FinalError(lastError))
  /\ pc' = "thrown"
  /\ UNCHANGED <<options, context, config, attempt, lastError, calls, inflight,
                 opLog, returned, delays, warnings, debugs, classified>>
  /\ UNCHANGED <<sleepTimers, trace, logLevel, consoleOut, delayVars, timeoutVars, mergeVars, serviceVars, appVars>>

\* Mutant: the result is not returned, the loop goes on to the next attempt
OperationResolves_NoReturn ==
  /\ pc = "await"
  /\ \E v \in Results : opLog' = Append(opLog, [ok |-> TRUE, value |-> v])
  /\ inflight' = inflight - 1
  /\ attempt' = attempt + 1
  /\ pc' = "loop"
  /\ UNCHANGED <<options, context, config, lastError, calls, returned, raised,
                 delays, warnings, debugs, classified>>
  /\ UNCHANGED <<sleepTimers, trace, logLevel, consoleOut, delayVars, timeoutVars, mergeVars, serviceVars, appVars>>

\* operation() resolves: return await operation()
OperationResolves ==
  /\ pc = "await"
  /\ \E v \in Results :
       /\ opLog' = Append(opLog, [ok |-> TRUE, value |-> v])
       /\ returned' = Append(returned, v)
  /\ inflight' = inflight - 1
  /\ pc' = "returned"
  /\ UNCHANGED <<options, context, config, attempt, lastError, calls, raised,
                 delays, warnings, debugs, classified>>
  /\ UNCHANGED <<sleepTimers, trace, logLevel, consoleOut, delayVars, timeoutVars, mergeVars, serviceVars, appVars>>

\* operation() rejects with e: the catch block's lastError = error
Caught(e) ==
  /\ pc = "await"
  /\ lastError' = e
  /\ opLog' = Append(opLog, [ok |-> FALSE, value |-> e])
  /\ inflight' = inflight - 1
  /\ UNCHANGED <<options, context, config, calls, returned>>

\* Mutant: the last attempt is not recognised, its failure is classified too
IsLastAttempt_Never(att, cfg) == FALSE

\* if (attempt === config.maxAttempts) break
IsLastAttempt(att, cfg) == att = cfg.maxAttempts

\* operation() rejects on the last attempt: break, then the final throw
RejectsLastAttempt ==
  \E kind \in ErrorKinds :
    LET e == Thrown(kind, calls)
    IN  /\ Caught(e)
        /\ IsLastAttempt(attempt, config)
        /\ raised' = Append(raised, FinalError(e))
        /\ pc' = "thrown"
        /\ UNCHANGED <<attempt, delays, warnings, debugs, classified>>
        /\ UNCHANGED <<sleepTimers, trace, logLevel, consoleOut, delayVars, timeoutVars, mergeVars, serviceVars, appVars>>

\* operation() rejects with a non-retryable error before the last attempt:
\* logger.debug, throw lastError
RejectsNonRetryable ==
  \E kind \in ErrorKinds :
    LET e == Thrown(kind, calls)
    IN  /\ Caught(e)
        /\ ~IsLastAttempt(attempt, config)
        /\ ~isRetryableError(e)
        /\ classified' = classified + 1
        /\ debugs' = debugs + 1
        /\ raised' = Append(raised, e)
        /\ pc' = "thrown"
        /\ UNCHANGED <<attempt, delays, warnings>>
        /\ UNCHANGED <<sleepTimers, trace, logLevel, consoleOut, delayVars, timeoutVars, mergeVars, serviceVars, appVars>>

\* The logger.warn call of the retry path
Warning(att, cfg, ctx, delay, e) ==
  [text |-> WarnText(att, cfg, ctx, delay), attempt |-> att,
   maxAttempts |-> cfg.maxAttempts, delay |-> delay, error |-> e.message]

\* Mutant: the warning is logged after sleep(delay) was started
RetryStep_WarnAfterSleep(e) ==
  /\ Caught(e)
  /\ ~IsLastAttempt(attempt, config)
  /\ isRetryableError(e)
  /\ classified' = classified + 1
  /\ \E k \in 0 .. RandDen - 1 :
       LET delay == calculateDelay(attempt, config, k)
       IN  /\ warnings' = Append(warnings, Warning(attempt, config, context, delay, e))
           /\ consoleOut' = warn(consoleOut, logLevel,
                                 Warning(attempt, config, context, delay, e))
           /\ delays' = Append(delays, delay)
           /\ trace' = Append(Append(trace, Event("sleep", attempt, delay)),
                              Event("warn", attempt, delay))
  /\ sleepTimers' = sleepTimers + 1
  /\ UNCHANGED <<raised, debugs, logLevel>>
  /\ UNCHANGED <<delayVars, timeoutVars, mergeVars, serviceVars, appVars>>

\* The catch block on a retryable error before the last attempt: the delay
\* is computed, the warning logged and then sleep(delay) started
RetryStep(e) ==
  /\ Caught(e)
  /\ ~IsLastAttempt(attempt, config)
  /\ isRetryableError(e)
  /\ classified' = classified + 1
  /\ \E k \in 0 .. RandDen - 1 :
       LET delay == calculateDelay(attempt, config, k)
       IN  /\ warnings' = Append(warnings, Warning(attempt, config, context, delay, e))
           /\ consoleOut' = warn(consoleOut, logLevel,
                                 Warning(attempt, config, context, delay, e))
           /\ delays' = Append(delays, delay)
           /\ trace' = Append(Append(trace, Event("warn", attempt, delay)),
                              Event("sleep", attempt, delay))
  /\ sleepTimers' = sleepTimers + 1
  /\ UNCHANGED <<raised, debugs, logLevel>>
  /\ UNCHANGED <<delayVars, timeoutVars, mergeVars, serviceVars, appVars>>

\* Mutant: sleep(delay) is started but not awaited; the loop goes on at once
RejectsRetryable_NoAwait ==
  \E kind \in ErrorKinds :
    /\ RetryStep(Thrown(kind, calls))
    /\ attempt' = attempt + 1
    /\ pc' = "loop"

\* operation() rejects with a retryable error before the last attempt:
\* await this.sleep(delay) suspends the invocation
RejectsRetryable ==
  \E kind \in ErrorKinds :
    /\ RetryStep(Thrown(kind, calls))
    /\ UNCHANGED attempt
    /\ pc' = "sleep"

\* The sleep() timer fires: the await resumes, attempt++ and back to the
\* loop condition
SleepElapsed ==
  /\ pc = "sleep"
  /\ sleepTimers > 0
  /\ sleepTimers' = sleepTimers - 1
  /\ attempt' = attempt + 1
  /\ pc' = "loop"
  /\ UNCHANGED <<options, context, config, lastError, calls, inflight, opLog,
                 returned, raised, delays, warnings, debugs, classified>>
  /\ UNCHANGED <<trace, logLevel, consoleOut, delayVars, timeoutVars, mergeVars, serviceVars, appVars>>

InitDelayIdle ==
  /\ dConfig = Defaults /\ dAttempt = 0 /\ dRnd = 0 /\ dDelay = 0

InitTimeoutIdle ==
  /\ timeoutMs = 0 /\ tContext = Absent
  /\ tOp = [mode |-> "never", at |-> 0, ok |-> TRUE]
  /\ tNow = 0 /\ tTurn = "idle" /\ tOpState = "idle" /\ tTimer = "idle"
  /\ tTimeoutPromise = "idle"
  /\ tRace = [state |-> "idle", value |-> "", error |-> Null]
  /\ tSettled = 0

\* A field of an object: defined with a value, or undefined
Defined(v) == [def |-> TRUE, val |-> v]
Undefined(v) == [def |-> FALSE, val |-> v]

InitMergeIdle ==
  /\ mOptions = [f \in {"maxAttempts", "baseDelay", "maxDelay", "exponentialBase", "jitter"}
                  |-> [has |-> FALSE, def |-> FALSE, val |-> 0]]
  /\ mConfig = [f \in {"maxAttempts", "baseDelay", "maxDelay", "exponentialBase", "jitter"}
                 |-> Undefined(0)]
  /\ mPc = "idle"

\* The names of the MCP servers
ServerName(i) == "server" \o ToString(i)
Servers == {ServerName(i) : i \in 1 .. MaxServers}

\* new MCPManager(): both maps empty, nothing called yet
InitMCP ==
  /\ clients = {} /\ transports = {}
  /\ connState = [n \in Servers |-> "none"]
  /\ connError = [n \in Servers |-> "none"]
  /\ connectCalls = [n \in Servers |-> 0]
  /\ initPromises = [n \in Servers |-> "none"]
  /\ initPc = "idle"
  /\ closeSnapshot = {}
  /\ closeCalls = [n \in Servers |-> 0]
  /\ closeState = [n \in Servers |-> "none"]
  /\ closePromises = [n \in Servers |-> "none"]
  /\ closePc = "idle"
  /\ mcpConsole = <<>>

\* new GenAIService(): no request yet
InitGenAI ==
  /\ genPc = "idle" /\ sdkCalls = 0 /\ sdkError = "none"
  /\ genThrown = Null /\ genConsole = 0

InitServicesIdle ==
  /\ serverConfigs = {} /\ InitMCP
  /\ genMethod = "generateContent" /\ InitGenAI

\* new ElProfessor(): empty history, no request made
InitAgent ==
  /\ conversationHistory = <<>> /\ appended = <<>>
  /\ agentClock = 1
  /\ reqPc = "idle"
  /\ streamLeft = <<>> /\ fullResponse = "" /\ yielded = <<>>
  /\ agentError = Null
  /\ failedRequests = 0 /\ streamRequests = 0

InitClassifyIdle ==
  /\ classifyArg = Null /\ classifyResults = <<>>

\* process.env.LOG_LEVEL: undefined, or a string (its characters)
EnvUnset == [set |-> FALSE, text |-> <<>>]

EnvSet(text) == [set |-> TRUE, text |-> text]

InitLoggerIdle ==
  /\ envLogLevel = EnvUnset /\ loggerCreated = FALSE /\ loggerLevel = INFO
  /\ loggerCalls = <<>> /\ loggerConsole = <<>>

InitCLIIdle ==
  /\ cliPc = "idle" /\ cliErrors = 0
  /\ prompts = 0 /\ finished = 0
  /\ exitCode = -1 /\ exitReason = "none"
  /\ rlClosed = FALSE

InitAppIdle == InitAgent /\ InitClassifyIdle /\ InitLoggerIdle /\ InitCLIIdle

Init ==
  /\ InitRetry /\ InitDelayIdle /\ InitTimeoutIdle /\ InitMergeIdle
  /\ InitServicesIdle /\ InitAppIdle

Next ==
  \/ InvokeOperation
  \/ LoopExit
  \/ OperationResolves
  \/ RejectsLastAttempt
  \/ RejectsNonRetryable
  \/ RejectsRetryable
  \/ SleepElapsed

Spec == Init /\ [][Next]_vars

\* The same invocation when every operation() call settles and every sleep()
\* timer fires: the event loop runs whatever step is ready
FairSpec == Init /\ [][Next]_vars /\ WF_vars(Next)

----------------------------------------------------------------------------
(* Properties of executeWithRetry (specification Spec) *)

\* The i-th settled operation() call failed with a retryable error
RetryableFailure(i) == ~opLog[i].ok /\ isRetryableError(opLog[i].value)

\* The i-th settled operation() call failed with a non-retryable error
NonRetryableFailure(i) == ~opLog[i].ok /\ ~isRetryableError(opLog[i].value)

Terminated == pc \in {"returned", "thrown"}

\* C1: with maxAttempts >= 1, when the first operation() call succeeds the
\* operation has been invoked exactly once, no delay was performed and
\* executeWithRetry returns exactly that call's result.
C1_FirstAttemptSuccess ==
  (config.maxAttempts >= 1 /\ Len(opLog) >= 1 /\ opLog[1].ok) =>
    /\ pc = "returned"
    /\ calls = 1 /\ Len(opLog) = 1
    /\ delays = <<>> /\ sleepTimers = 0
    /\ returned = <<opLog[1].value>>
    /\ raised = <<>>

C1_Witness ==
  /\ pc = "returned" /\ calls = 1
  /\ returned = <<"success">>
  /\ config = Defaults

\* C2: for 1 <= n <= maxAttempts, when the operation has failed its first
\* n-1 calls with retryable errors and the n-th succeeds, it has been invoked
\* exactly n times and executeWithRetry returns the n-th call's result; and
\* after m < maxAttempts retryable failures and nothing else the invocation
\* has not terminated, it is on its way to call m+1.
C2_RetryThenSuccess ==
  LET n == Len(opLog)
  IN  /\ ( /\ 1 <= n /\ n <= config.maxAttempts
           /\ opLog[n].ok
           /\ \A i \in 1 .. n - 1 : RetryableFailure(i) ) =>
             /\ pc = "returned"
             /\ calls = n
             /\ returned = <<opLog[n].value>>
             /\ raised = <<>>
      /\ ( /\ n < config.maxAttempts
           /\ \A i \in 1 .. n : RetryableFailure(i) ) =>
             /\ returned = <<>> /\ raised = <<>>
             /\ \/ pc = "sleep" /\ attempt = n /\ calls = n
                \/ pc = "loop" /\ attempt = n + 1 /\ calls = n
                \/ pc = "await" /\ attempt = n + 1 /\ calls = n + 1

\* maxAttempts = 3, two retryable failures, then "ok": "ok" after 3 calls
\* and 2 retry warnings
C2_Witness ==
  /\ config.maxAttempts = 3
  /\ pc = "returned" /\ calls = 3
  /\ RetryableFailure(1) /\ RetryableFailure(2)
  /\ returned = <<"ok">>
  /\ Len(warnings) = 2

\* C3: with maxAttempts >= 1, once executeWithRetry has terminated on an
\* operation all of whose calls failed with retryable errors, the operation
\* has been invoked exactly maxAttempts times and the one error thrown is the
\* error of call number maxAttempts.
C3_ExhaustedRetries ==
  ( /\ config.maxAttempts >= 1
    /\ Terminated
    /\ \A i \in 1 .. Len(opLog) : RetryableFailure(i) ) =>
      /\ calls = config.maxAttempts
      /\ Len(opLog) = config.maxAttempts
      /\ raised = <<opLog[config.maxAttempts].value>>
      /\ raised[1].id = config.maxAttempts
      /\ returned = <<>>

C3_Witness ==
  /\ config.maxAttempts = 3
  /\ pc = "thrown" /\ calls = 3
  /\ \A i \in 1 .. 3 : RetryableFailure(i)
  /\ opLog[1].value.cls # opLog[3].value.cls
  /\ raised = <<opLog[3].value>>

\* C4: when an operation() call fails with an error the predicate classifies
\* as non-retryable, executeWithRetry stops at that call: no further
\* invocation, no delay after it, and it throws that same error.
C4_NonRetryableStops ==
  LET n == Len(opLog)
  IN  (n >= 1 /\ NonRetryableFailure(n)) =>
        /\ pc = "thrown"
        /\ calls = n
        /\ Len(delays) = n - 1 /\ sleepTimers = 0
        /\ raised = <<opLog[n].value>>

\* C8: an invocation in which an attempt ran and which does not return
\* raises exactly one value, one of the errors its operation() calls threw;
\* no invocation both returns and raises.
C8_RaisesAnOperationError ==
  /\ (pc = "thrown" /\ calls >= 1) =>
       /\ Len(raised) = 1 /\ returned = <<>>
       /\ \E i \in 1 .. Len(opLog) : ~opLog[i].ok /\ opLog[i].value = raised[1]
  /\ (pc = "returned") => (Len(returned) = 1 /\ raised = <<>>)
  /\ ~Terminated => (returned = <<>> /\ raised = <<>>)

\* An operation() call starts in this step
CallStarts == calls' = calls + 1

\* C9: at most one operation() call is in flight at any time, and a call
\* starts only when every earlier call has settled, the latest of them with a
\* failure, and the backoff delay started after that failure has elapsed (one
\* delay per earlier call, no sleep timer still pending).
C9_SequentialAttempts ==
  /\ [](inflight \in {0, 1})
  /\ [][CallStarts =>
          /\ inflight = 0
          /\ Len(opLog) = calls
          /\ calls >= 1 =>
               /\ ~opLog[calls].ok
               /\ Len(delays) = calls
               /\ sleepTimers = 0
               /\ attempt = calls + 1]_vars

\* the third call is in flight after two failures and two elapsed delays
C9_Witness ==
  /\ pc = "await" /\ inflight = 1 /\ calls = 3
  /\ Len(opLog) = 2 /\ Len(delays) = 2 /\ sleepTimers = 0

\* The state of the stated machine an invocation is in
Machine ==
  CASE pc \in {"loop", "await"} -> <<"ATTEMPTING", attempt>>
    [] pc = "sleep" -> <<"DELAYING", attempt>>
    [] pc = "returned" -> <<"DONE", 0>>
    [] pc = "thrown" -> <<"FAILED", 0>>
    [] OTHER -> <<"IDLE", 0>>

\* The latest operation() call settled in this step
Settles == Len(opLog') = Len(opLog) + 1
Succeeds == Settles /\ opLog'[Len(opLog')].ok
Fails == Settles /\ ~opLog'[Len(opLog')].ok
FailsRetryable == Fails /\ isRetryableError(opLog'[Len(opLog')].value)

\* One step of the stated machine
MachineStep ==
  LET n == attempt
  IN  \/ /\ Machine = <<"ATTEMPTING", n>> /\ Machine' = Machine
         /\ CallStarts /\ ~Settles
         /\ UNCHANGED <<delays, warnings>>
      \/ /\ Machine = <<"ATTEMPTING", n>> /\ Machine' = <<"DONE", 0>>
         /\ Succeeds
         /\ UNCHANGED <<calls, delays, warnings>>
      \/ /\ Machine = <<"ATTEMPTING", n>> /\ Machine' = <<"FAILED", 0>>
         /\ Fails /\ (n = config.maxAttempts \/ ~FailsRetryable)
         /\ UNCHANGED <<calls, delays, warnings>>
      \/ /\ Machine = <<"ATTEMPTING", n>> /\ Machine' = <<"DELAYING", n>>
         /\ FailsRetryable /\ n < config.maxAttempts
         /\ Len(delays') = Len(delays) + 1 /\ Len(warnings') = Len(warnings) + 1
         /\ UNCHANGED calls
      \/ /\ Machine = <<"DELAYING", n>> /\ Machine' = <<"ATTEMPTING", n + 1>>
         /\ ~Settles
         /\ UNCHANGED <<calls, delays, warnings>>

\* C10: with maxAttempts >= 1 an invocation starts in ATTEMPTING(1), every
\* step it takes is a step of the stated machine (so none is taken from DONE
\* or FAILED: no call, delay or warning after termination), and the attempt
\* index never exceeds maxAttempts.
C10_StateMachine ==
  /\ (config.maxAttempts >= 1 => Machine = <<"ATTEMPTING", 1>>)
  /\ [][config.maxAttempts >= 1 => MachineStep]_vars
  /\ [](config.maxAttempts >= 1 => attempt <= config.maxAttempts)

\* DELAYING(2) -> ATTEMPTING(3) -> FAILED has been walked
C10_Witness ==
  /\ config.maxAttempts = 3
  /\ Machine = <<"FAILED", 0>>
  /\ attempt = 3 /\ Len(delays) = 2 /\ Len(opLog) = 3

\* C11: when every operation() call settles and every backoff delay elapses
\* (FairSpec), the invocation terminates; it never makes more than
\* maxAttempts calls and, for maxAttempts >= 1, never more than
\* maxAttempts - 1 delays.
C11_Terminates ==
  /\ <>Terminated
  /\ [](calls <= IF config.maxAttempts < 0 THEN 0 ELSE config.maxAttempts)
  /\ [](config.maxAttempts >= 1 => Len(delays) <= config.maxAttempts - 1)

\* a terminated run that used its whole budget: 3 calls, 2 delays
C11_Witness ==
  /\ config.maxAttempts = 3
  /\ Terminated /\ calls = 3 /\ Len(delays) = 2 /\ sleepTimers = 0

\* The trace is call 1, warn 1, sleep 1, call 2, warn 2, sleep 2, ...: the
\* i-th warning and the i-th sleep lie, in this order, between the i-th and
\* the (i+1)-th operation() call, and both carry the i-th delay
TraceInOrder ==
  \A j \in 1 .. Len(trace) :
    LET i == ((j - 1) \div 3) + 1
        r == (j - 1) % 3
    IN  IF r = 0
        THEN trace[j] = Event("call", i, 0)
        ELSE /\ i <= Len(delays)
             /\ trace[j] = Event(IF r = 1 THEN "warn" ELSE "sleep", i, delays[i])

\* What console.warn has received when every logger.warn call is written
WrittenWarnings ==
  [i \in 1 .. Len(warnings) |->
     [level |-> "WARN", message |-> warnings[i].text, args |-> warnings[i].error]]

\* C15 (as stated): every retry is preceded by exactly one emitted warning
\* and then one delay; after c operation() calls exactly c-1 warnings have
\* been written and c-1 delays slept, the i-th warning reporting attempt i,
\* maxAttempts and the i-th delay.
C15_WarningEmittedPerRetry ==
  /\ TraceInOrder
  /\ (calls >= 1 /\ (Terminated \/ pc = "await")) =>
       /\ Len(delays) = calls - 1
       /\ Len(consoleOut) = calls - 1
  /\ \A i \in 1 .. Len(consoleOut) :
       i <= Len(delays) /\ consoleOut[i].message = WarnText(i, config, context, delays[i])

\* C15 (amended): every retry is preceded by exactly one logger.warn call and
\* then one sleep(delay); after c operation() calls there were exactly c-1
\* logger.warn calls and c-1 delays, the i-th lying between the i-th and the
\* (i+1)-th call, the i-th warning reporting attempt i, maxAttempts and the
\* i-th delay; the warnings reach the console only when logLevel >= WARN.
C15_WarnCallPerRetry ==
  /\ TraceInOrder
  /\ Len(warnings) = Len(delays)
  /\ (calls >= 1 /\ (Terminated \/ pc = "await")) => Len(delays) = calls - 1
  /\ pc = "sleep" => Len(delays) = calls
  /\ \A i \in 1 .. Len(warnings) :
       /\ warnings[i].attempt = i
       /\ warnings[i].maxAttempts = config.maxAttempts
       /\ warnings[i].delay = delays[i]
       /\ warnings[i].text = WarnText(i, config, context, delays[i])
  /\ consoleOut = IF logLevel >= WARN THEN WrittenWarnings ELSE <<>>

\* Two failures then a success with maxAttempts = 3: 3 calls, 2 warnings and
\* 2 delays, written to the console
C15_Witness ==
  /\ pc = "returned" /\ calls = 3 /\ config.maxAttempts = 3
  /\ Len(warnings) = 2 /\ Len(delays) = 2 /\ Len(trace) = 7
  /\ logLevel = INFO /\ Len(consoleOut) = 2
  /\ config.baseDelay = 10 /\ delays[2] > delays[1]

\* C16: when the effective maxAttempts is below 1 the operation is never
\* invoked, nothing is returned, and the invocation ends by raising the
\* generic Error('Max retry attempts exceeded').
C16_NoAttemptRaisesGeneric ==
  /\ [](config.maxAttempts < 1 =>
          /\ calls = 0 /\ returned = <<>> /\ delays = <<>>
          /\ pc \in {"loop", "thrown"}
          /\ pc = "thrown" => raised = <<MaxAttemptsError>>)
  /\ <>(config.maxAttempts < 1 => pc = "thrown" /\ raised = <<MaxAttemptsError>>)

C16_Witness ==
  /\ config.maxAttempts = 0
  /\ pc = "thrown" /\ calls = 0 /\ raised = <<MaxAttemptsError>>
  /\ returned = <<>> /\ trace = <<>>

\* The failed calls of attempts before the last one
FailuresBeforeLast ==
  {i \in 1 .. Len(opLog) : ~opLog[i].ok /\ i < config.maxAttempts}

\* The predicate is evaluated once for each failure before the last attempt
\* and never else; each warning and each delay follows an evaluation
ClassifiedBeforeLastOnly ==
  /\ classified = Cardinality(FailuresBeforeLast)
  /\ classified <= (IF config.maxAttempts >= 1 THEN config.maxAttempts - 1 ELSE 0)
  /\ Len(warnings) <= classified /\ Len(delays) <= classified
  /\ config.maxAttempts = 1 => (classified = 0 /\ warnings = <<>> /\ delays = <<>>)

\* C27: the predicate is evaluated for the failures of attempts before the
\* last one and for no other, so at most maxAttempts - 1 times; when the
\* last attempt fails executeWithRetry throws that attempt's error, and
\* maxAttempts = 1 never classifies, warns or delays.
C27_PredicateBeforeLastOnly ==
  /\ ClassifiedBeforeLastOnly
  /\ (config.maxAttempts >= 1 /\ Len(opLog) = config.maxAttempts
        /\ ~opLog[config.maxAttempts].ok) =>
       /\ pc = "thrown"
       /\ raised = <<opLog[config.maxAttempts].value>>

\* operation() call i rejected with the timeout error of executeWithTimeout
TimedOut(i) ==
  /\ i <= Len(opLog)
  /\ ~opLog[i].ok
  /\ opLog[i].value = Thrown(WrapperTimeout, i)

\* C28: the timeout error of executeWithTimeout is classified non-retryable:
\* with maxAttempts > 1, when the first attempt times out executeWithRetry
\* has made exactly one call, slept and warned not at all, and throws that
\* timeout error.
C28_TimeoutNotRetried ==
  /\ ~isRetryableError(WrapperTimeout)
  /\ (config.maxAttempts > 1 /\ TimedOut(1)) =>
       /\ pc = "thrown"
       /\ calls = 1 /\ Len(opLog) = 1
       /\ delays = <<>> /\ warnings = <<>> /\ sleepTimers = 0
       /\ raised = <<Thrown(WrapperTimeout, 1)>>
  /\ \A i \in 1 .. Len(opLog) :
       (TimedOut(i) /\ i # config.maxAttempts) =>
         /\ Len(opLog) = i /\ calls = i
         /\ raised = <<opLog[i].value>>

\* maxAttempts = 3 and the first attempt times out: one call, no delay, the
\* timeout error is thrown
C28_Witness ==
  /\ config.maxAttempts = 3
  /\ TimedOut(1)
  /\ pc = "thrown" /\ calls = 1 /\ delays = <<>>
  /\ Join(raised[1].message) = "Operation timed out after 1000ms in fetch"

----------------------------------------------------------------------------
(* calculateDelay on its own (specification SpecDelay) *)

\* The configs calculateDelay is applied to; exponentialBase is a real >= 1
DelayConfigs ==
  [maxAttempts : {3},
   baseDelay : {0, 1, 10, 100, 1000},
   maxDelay : {0, 15, 1000, 10000},
   exponentialBase : {<<1, 1>>, <<3, 2>>, <<2, 1>>, <<3, 1>>},
   jitter : BOOLEAN]

InitDelay ==
  /\ dConfig \in DelayConfigs
  /\ dAttempt = 0 /\ dRnd = 0 /\ dDelay = 0

\* calculateDelay(attempt, config) is called; Math.random() yields r / RandDen
ComputeDelay ==
  /\ \E k \in 1 .. MaxDelayAttempt, r \in 0 .. RandDen - 1 :
       /\ dAttempt' = k
       /\ dRnd' = r
       /\ dDelay' = calculateDelay(k, dConfig, r)
  /\ UNCHANGED <<dConfig, retryVars, timeoutVars, mergeVars, serviceVars, appVars>>

NextDelay == ComputeDelay

DelayInit ==
  InitRetryIdle /\ InitDelay /\ InitTimeoutIdle /\ InitMergeIdle /\ InitServicesIdle
    /\ InitAppIdle

SpecDelay == DelayInit /\ [][NextDelay]_vars

\* min(baseDelay * exponentialBase^(k-1), maxDelay) as a rational <<n, d>>
UnjitteredDelay(k, cfg) ==
  LET n == cfg.baseDelay * (cfg.exponentialBase[1] ^ (k - 1))
      d == cfg.exponentialBase[2] ^ (k - 1)
  IN  IF n <= cfg.maxDelay * d THEN <<n, d>> ELSE <<cfg.maxDelay, 1>>

\* C6 as stated: without jitter the delay of attempt k equals
\* min(baseDelay * exponentialBase^(k-1), maxDelay) exactly.
C6_DelayExact ==
  (dAttempt >= 1 /\ ~dConfig.jitter) =>
    LET u == UnjitteredDelay(dAttempt, dConfig)
    IN  dDelay * u[2] = u[1]

\* C6 amended: without jitter the delay of attempt k is the integer part of
\* min(baseDelay * exponentialBase^(k-1), maxDelay), equal to it whenever it
\* is an integer; baseDelay=1000, exponentialBase=2, maxDelay=10000 give
\* 1000, 2000, 4000, 8000, 10000, 10000 for k = 1..6.
C6_DelayFloor ==
  (dAttempt >= 1 /\ ~dConfig.jitter) =>
    LET u == UnjitteredDelay(dAttempt, dConfig)
    IN  /\ dDelay * u[2] <= u[1]
        /\ u[1] < (dDelay + 1) * u[2]
        /\ ( /\ dConfig.baseDelay = 1000 /\ dConfig.maxDelay = 10000
             /\ dConfig.exponentialBase = <<2, 1>> /\ dAttempt <= 6 ) =>
               dDelay = <<1000, 2000, 4000, 8000, 10000, 10000>>[dAttempt]

\* the cap is reached at attempt 5 of the example
C6_Witness ==
  /\ ~dConfig.jitter
  /\ dConfig.baseDelay = 1000 /\ dConfig.maxDelay = 10000
  /\ dConfig.exponentialBase = <<2, 1>>
  /\ dAttempt = 5 /\ dDelay = 10000

\* C7 as stated: with jitter the delay lies in [0, 1.25 * d] and is at least
\* 0.75 * d, d the unjittered delay.
C7_JitterBounds ==
  (dAttempt >= 1 /\ dConfig.jitter) =>
    LET u == UnjitteredDelay(dAttempt, dConfig)
    IN  /\ 0 <= dDelay
        /\ 4 * dDelay * u[2] <= 5 * u[1]
        /\ 4 * dDelay * u[2] >= 3 * u[1]

\* C7 amended: with jitter the delay is an integer in [0, 1.25 * d] and at
\* least the integer part of 0.75 * d (more than 0.75 * d - 1).
C7_JitterBoundsFloor ==
  (dAttempt >= 1 /\ dConfig.jitter) =>
    LET u == UnjitteredDelay(dAttempt, dConfig)
    IN  /\ 0 <= dDelay
        /\ 4 * dDelay * u[2] <= 5 * u[1]
        /\ 4 * (dDelay + 1) * u[2] > 3 * u[1]

\* the lowest draw on an unjittered delay of 10: 7.5 truncated to 7
C7_Witness ==
  /\ dConfig.jitter
  /\ dAttempt = 1 /\ dConfig.baseDelay = 10 /\ dConfig.maxDelay = 15
  /\ dRnd = 0 /\ dDelay = 7

----------------------------------------------------------------------------
(* executeWithTimeout (specification SpecTimeout) *)

\* What the wrapped operation resolves with / rejects with
OpValue == "success"
OpError == Err("Error", <<"operation failed">>, 1)

\* The wrapped operations: one that settles within the calling turn (an
\* already settled promise, an async function without a real suspension),
\* one that settles in a later event-loop task at time `at`, one that never
\* settles
Operations ==
  [mode : {"microtask"}, at : {0}, ok : BOOLEAN]
    \cup [mode : {"macrotask"}, at : 0 .. MaxTime, ok : BOOLEAN]
    \cup [mode : {"never"}, at : {0}, ok : {TRUE}]

\* Mutant: setTimeout is called without its delay
TimerDue_Immediate(ms) == 0

\* Mutant: the timer is due one time unit late
TimerDue_PlusOne(ms) == ms + 1

\* setTimeout(..., timeoutMs): the time the timer is due
TimerDue(ms) == ms

\* A settled promise handed to the caller
Resolved(v) == [state |-> "resolved", value |-> v, error |-> Null]
Rejected(e) == [state |-> "rejected", value |-> "", error |-> e]
Pending == [state |-> "pending", value |-> "", error |-> Null]

\* Mutant: the latest settlement wins
RaceSettle_LastWins(race, outcome) == outcome

\* Promise.race: the first settlement wins, later ones are ignored
RaceSettle(race, outcome) == IF race.state = "pending" THEN outcome ELSE race

\* Right after executeWithTimeout(operation, timeoutMs, context) was called:
\* the timer is set, operation() has been called, the race is pending
InitTimeout ==
  /\ timeoutMs \in 0 .. MaxTime
  /\ tContext \in {Absent, "test"}
  /\ tOp \in Operations
  /\ tNow = 0 /\ tTurn = "initial"
  /\ tOpState = "pending" /\ tTimer = "pending"
  /\ tTimeoutPromise = "pending"
  /\ tRace = Pending
  /\ tSettled = 0

\* The operation's promise settles and Promise.race sees it
SettleOperation ==
  /\ tOpState = "pending"
  /\ tOpState' = IF tOp.ok THEN "resolved" ELSE "rejected"
  /\ tRace' = RaceSettle(tRace, IF tOp.ok THEN Resolved(OpValue) ELSE Rejected(OpError))
  /\ tSettled' = IF tRace' # tRace THEN tSettled + 1 ELSE tSettled
  /\ UNCHANGED <<timeoutMs, tContext, tOp, tNow, tTimer, tTimeoutPromise>>
  /\ UNCHANGED <<retryVars, delayVars, mergeVars, serviceVars, appVars>>

\* The operation settles within the calling turn, before any timer callback
OperationSettlesSameTurn ==
  /\ tTurn = "initial"
  /\ tOp.mode = "microtask"
  /\ SettleOperation
  /\ UNCHANGED tTurn

\* The calling turn and its microtasks are over: the event loop takes over
EndTurn ==
  /\ tTurn = "initial"
  /\ tOp.mode = "microtask" => tOpState # "pending"
  /\ tTurn' = "loop"
  /\ UNCHANGED <<timeoutMs, tContext, tOp, tNow, tOpState, tTimer,
                 tTimeoutPromise, tRace, tSettled>>
  /\ UNCHANGED <<retryVars, delayVars, mergeVars, serviceVars, appVars>>

\* The operation settles in a later event-loop task
OperationSettlesLater ==
  /\ tTurn = "loop"
  /\ tOp.mode = "macrotask"
  /\ tNow >= tOp.at
  /\ SettleOperation
  /\ UNCHANGED tTurn

\* The setTimeout callback runs: reject(new Error(...)) on timeoutPromise.
\* Nothing ever clears the timer, so it also runs after the operation won.
TimerFires ==
  /\ tTurn = "loop"
  /\ tTimer = "pending"
  /\ tNow >= TimerDue(timeoutMs)
  /\ tTimer' = "fired"
  /\ tTimeoutPromise' = "rejected"
  /\ tRace' = RaceSettle(tRace, Rejected(TimeoutError(timeoutMs, tContext)))
  /\ tSettled' = IF tRace' # tRace THEN tSettled + 1 ELSE tSettled
  /\ UNCHANGED <<timeoutMs, tContext, tOp, tNow, tTurn, tOpState>>
  /\ UNCHANGED <<retryVars, delayVars, mergeVars, serviceVars, appVars>>

\* Time passes while no task is due
Tick ==
  /\ tTurn = "loop"
  /\ tNow < MaxTime
  /\ ~(tTimer = "pending" /\ tNow >= TimerDue(timeoutMs))
  /\ ~(tOp.mode = "macrotask" /\ tOpState = "pending" /\ tNow >= tOp.at)
  /\ tNow' = tNow + 1
  /\ UNCHANGED <<timeoutMs, tContext, tOp, tTurn, tOpState, tTimer,
                 tTimeoutPromise, tRace, tSettled>>
  /\ UNCHANGED <<retryVars, delayVars, mergeVars, serviceVars, appVars>>

NextTimeout ==
  \/ OperationSettlesSameTurn
  \/ EndTurn
  \/ OperationSettlesLater
  \/ TimerFires
  \/ Tick

TimeoutInit ==
  InitRetryIdle /\ InitDelayIdle /\ InitTimeout /\ InitMergeIdle /\ InitServicesIdle
    /\ InitAppIdle

SpecTimeout == TimeoutInit /\ [][NextTimeout]_vars

\* The operation settles before the timer is due / the timer is due before
\* the operation settles
OperationFirst == tOp.mode = "microtask" \/ (tOp.mode = "macrotask" /\ tOp.at < timeoutMs)
TimerFirst == tOp.mode = "never" \/ (tOp.mode = "macrotask" /\ timeoutMs < tOp.at)

\* C5: when the operation resolves before the timer of timeoutMs is due the
\* call resolves with the operation's result; when the timer fires before the
\* operation settles the call rejects with an Error whose message is
\* 'Operation timed out after <timeoutMs>ms in <context>', and stays rejected
\* with it when the operation resolves later.
C5_TimeoutRace ==
  /\ (OperationFirst /\ tOpState = "resolved") => tRace = Resolved(OpValue)
  /\ (TimerFirst /\ tTimer = "fired") =>
       /\ tRace.state = "rejected"
       /\ tRace.error.cls = "Error"
       /\ Join(tRace.error.message) =
            "Operation timed out after " \o ToString(timeoutMs) \o "ms in "
              \o (IF tContext = Absent THEN "undefined" ELSE tContext)
       /\ (timeoutMs = 1 /\ tContext = "test") =>
            Join(tRace.error.message) = "Operation timed out after 1ms in test"

\* timeoutMs = 1, the operation resolves at 2: rejected, and still rejected
\* after the operation has resolved
C5_Witness ==
  /\ timeoutMs = 1 /\ tContext = "test"
  /\ tOp = [mode |-> "macrotask", at |-> 2, ok |-> TRUE]
  /\ tTimer = "fired" /\ tOpState = "resolved"
  /\ tRace.state = "rejected"

\* The outcome of the wrapped operation, as a settled promise
OpOutcome == IF tOp.ok THEN Resolved(OpValue) ELSE Rejected(OpError)

\* The setTimeout callback runs in this step
TimerCallbackRuns == tTimer = "pending" /\ tTimer' = "fired"

\* C12: when the operation settles before the timer fires the call delivers
\* the operation's outcome and the timer is discarded: from then on the
\* timer is not pending and its callback has not run.
C12_TimerDiscarded ==
  (tOpState # "pending" /\ tRace = OpOutcome) =>
    /\ tRace.state # "pending"
    /\ tTimer # "pending"
    /\ tTimer # "fired"

\* C13: when the timer callback runs while the operation is pending the call
\* settles, for the only time, with the timeout error; the operation stays
\* pending (it is not cancelled) and, when it settles later, the delivered
\* outcome is still the timeout error and nothing is delivered again.
C13_TimeoutSettlesOnce ==
  /\ [](tSettled <= 1)
  /\ []((TimerFirst /\ tTimer = "fired") =>
          tRace = Rejected(TimeoutError(timeoutMs, tContext)) /\ tSettled = 1)
  /\ [][(TimerCallbackRuns /\ tOpState = "pending") =>
          /\ tRace' = Rejected(TimeoutError(timeoutMs, tContext))
          /\ tSettled' = 1
          /\ tOpState' = "pending"]_vars
  /\ [][tRace.state # "pending" => (tRace' = tRace /\ tSettled' = tSettled)]_vars

\* timeoutMs = 1 and an operation that fails at 3: the timeout error was
\* delivered once and is still the outcome after the operation has failed
C13_Witness ==
  /\ timeoutMs = 1
  /\ tOp = [mode |-> "macrotask", at |-> 3, ok |-> FALSE]
  /\ tTimer = "fired" /\ tOpState = "rejected"
  /\ tRace = Rejected(TimeoutError(1, tContext))
  /\ tSettled = 1

\* C14: with timeoutMs = 0 the timer callback runs before time advances; the
\* call delivers the operation's outcome when the operation has settled
\* before that callback runs, which is always so for an operation settling
\* within the calling turn, and the timeout error otherwise.
C14_ZeroTimeout ==
  /\ []((timeoutMs = 0 /\ tTimer = "pending") => tNow = 0)
  /\ []((timeoutMs = 0 /\ tTimer = "fired") => tRace.state # "pending")
  /\ []((timeoutMs = 0 /\ tOp.mode = "microtask" /\ tTurn = "loop") =>
          tRace = OpOutcome)
  /\ []((timeoutMs = 0 /\ tTimer = "fired"
           /\ (tOp.mode = "never" \/ (tOp.mode = "macrotask" /\ tOp.at >= 1))) =>
          tRace = Rejected(TimeoutError(0, tContext)))
  /\ [][(timeoutMs = 0 /\ TimerCallbackRuns) =>
          tRace' = IF tOpState = "pending"
                   THEN Rejected(TimeoutError(0, tContext))
                   ELSE OpOutcome]_vars

\* timeoutMs = 0 with an already resolved promise: the call resolved with
\* the operation's result, and the timer callback ran afterwards
C14_Witness ==
  /\ timeoutMs = 0
  /\ tOp = [mode |-> "microtask", at |-> 0, ok |-> TRUE]
  /\ tRace = Resolved(OpValue)
  /\ tTimer = "fired" /\ tNow = 0 /\ tSettled = 1

----------------------------------------------------------------------------
(* The config object of executeWithRetry (specification SpecMerge) *)

Fields == {"maxAttempts", "baseDelay", "maxDelay", "exponentialBase", "jitter"}

\* A key of the options argument: carried with a value, carried with the
\* value undefined (Partial<RetryOptions> allows { maxAttempts: undefined }),
\* or not carried
Carried(v) == [has |-> TRUE, def |-> TRUE, val |-> v]
CarriedUndefined(v) == [has |-> TRUE, def |-> FALSE, val |-> v]
NotCarried(v) == [has |-> FALSE, def |-> FALSE, val |-> v]

\* Mutant: a key carried as undefined is skipped
SpreadField_SkipUndefined(default, key) ==
  IF key.has /\ key.def THEN Defined(key.val) ELSE Defined(default)

\* One field of { ...defaults, ...options }: object spread copies every own
\* key of options, whatever its value
SpreadField(default, key) ==
  IF key.has
  THEN (IF key.def THEN Defined(key.val) ELSE Undefined(key.val))
  ELSE Defined(default)

\* const config = { maxAttempts: 3, ..., jitter: true, ...options }
SpreadOptions(opts) == [f \in Fields |-> SpreadField(Defaults[f], opts[f])]

\* The options arguments the model draws from
MergeSpace ==
  [maxAttempts : {NotCarried(0), CarriedUndefined(0)}
                   \cup {Carried(n) : n \in 1 .. MaxAttemptsOverride},
   baseDelay : {NotCarried(0), CarriedUndefined(0), Carried(10)},
   maxDelay : {NotCarried(0), CarriedUndefined(0), Carried(15)},
   exponentialBase : {NotCarried(<<1, 1>>), CarriedUndefined(<<1, 1>>), Carried(<<3, 2>>)},
   jitter : {NotCarried(FALSE), CarriedUndefined(FALSE), Carried(FALSE)}]

InitMerge ==
  /\ mOptions \in MergeSpace
  /\ mConfig = [f \in Fields |-> Undefined(0)]
  /\ mPc = "entry"

\* executeWithRetry is entered and builds its config
BuildConfig ==
  /\ mPc = "entry"
  /\ mConfig' = SpreadOptions(mOptions)
  /\ mPc' = "built"
  /\ UNCHANGED mOptions
  /\ UNCHANGED <<retryVars, delayVars, timeoutVars, serviceVars, appVars>>

NextMerge == BuildConfig

MergeInit ==
  InitRetryIdle /\ InitDelayIdle /\ InitTimeoutIdle /\ InitMerge /\ InitServicesIdle
    /\ InitAppIdle

SpecMerge == MergeInit /\ [][NextMerge]_vars

\* C17: the effective config takes each of the five fields from the override
\* when the override carries it and from the defaults otherwise, and has all
\* five fields defined.
C17_EffectiveConfig ==
  mPc = "built" =>
    \A f \in Fields :
      /\ mConfig[f].def
      /\ mConfig[f].val = IF mOptions[f].has THEN mOptions[f].val ELSE Defaults[f]

----------------------------------------------------------------------------
(* MCPManager and GenAIService (specification SpecServices) *)

\* What client.connect and the SDK call can reject with: a transient
\* failure (a timeout, a reset connection, a rate limit) or a permanent one
Failures == {"transient", "permanent"}

\* Mutant: initializeServer lets the connect error through
CaughtInitError_Rethrown == "rejected"

\* initializeServer's catch block ends normally: its promise fulfils
CaughtInitError == "fulfilled"

\* Mutant: closeAll lets the close error through
CaughtCloseError_Rethrown == "rejected"

\* client.close().catch(...): the promise fulfils whatever close() did
CaughtCloseError == "fulfilled"

\* Mutant: the maps are left as they are
Cleared_Kept(map) == map

\* Map.prototype.clear
Cleared(map) == {}

\* Promise.all over the promises of the names in S: "rejected" once one has
\* rejected, "resolved" once all have fulfilled, "pending" before
PromiseAll(promises, S) ==
  IF \E n \in S : promises[n] = "rejected" THEN "rejected"
  ELSE IF \A n \in S : promises[n] = "fulfilled" THEN "resolved"
  ELSE "pending"

\* The configured servers have distinct names (ConfigManager.getMCPServersConfig)
InitServices ==
  /\ serverConfigs \in SUBSET Servers
  /\ InitMCP
  /\ genMethod \in {"generateContent", "generateContentStream"}
  /\ InitGenAI

\* initializeServers(serverConfigs): map() runs initializeServer for every
\* config up to its await, so every client.connect call is made in this turn
InitializeServersCall ==
  /\ initPc = "idle"
  /\ connState' = [n \in Servers |-> IF n \in serverConfigs THEN "connecting" ELSE connState[n]]
  /\ connectCalls' = [n \in Servers |->
                        IF n \in serverConfigs THEN connectCalls[n] + 1 ELSE connectCalls[n]]
  /\ initPromises' = [n \in Servers |->
                        IF n \in serverConfigs THEN "pending" ELSE initPromises[n]]
  /\ initPc' = "pending"
  /\ UNCHANGED <<serverConfigs, clients, transports, connError, closeSnapshot,
                 closeCalls, closeState, closePromises, closePc, mcpConsole>>

\* initializeServers called on the manager
InitializeServers ==
  /\ InitializeServersCall
  /\ UNCHANGED <<genVars, retryVars, delayVars, timeoutVars, mergeVars, appVars>>

\* client.connect resolves: both maps get the entry, success is logged
ConnectResolves ==
  \E n \in Servers :
    /\ connState[n] = "connecting"
    /\ connState' = [connState EXCEPT ![n] = "connected"]
    /\ clients' = clients \cup {n}
    /\ transports' = transports \cup {n}
    /\ mcpConsole' = Append(mcpConsole, [stream |-> "log", what |-> "initialized", name |-> n])
    /\ initPromises' = [initPromises EXCEPT ![n] = "fulfilled"]
    /\ UNCHANGED <<serverConfigs, connError, connectCalls, initPc, closeSnapshot,
                   closeCalls, closeState, closePromises, closePc>>
    /\ UNCHANGED <<genVars, retryVars, delayVars, timeoutVars, mergeVars, appVars>>

\* client.connect rejects: the catch block reports it with console.error
ConnectRejects ==
  \E n \in Servers, f \in Failures :
    /\ connState[n] = "connecting"
    /\ connState' = [connState EXCEPT ![n] = "failed"]
    /\ connError' = [connError EXCEPT ![n] = f]
    /\ mcpConsole' = Append(mcpConsole, [stream |-> "error", what |-> "init failed", name |-> n])
    /\ initPromises' = [initPromises EXCEPT ![n] = CaughtInitError]
    /\ UNCHANGED <<serverConfigs, clients, transports, connectCalls, initPc,
                   closeSnapshot, closeCalls, closeState, closePromises, closePc>>
    /\ UNCHANGED <<genVars, retryVars, delayVars, timeoutVars, mergeVars, appVars>>

\* await Promise.all(initPromises) is over
InitializeServersSettles ==
  /\ initPc = "pending"
  /\ PromiseAll(initPromises, serverConfigs) # "pending"
  /\ initPc' = PromiseAll(initPromises, serverConfigs)
  /\ UNCHANGED <<serverConfigs, clients, transports, connState, connError,
                 connectCalls, initPromises, closeSnapshot, closeCalls,
                 closeState, closePromises, closePc, mcpConsole>>
  /\ UNCHANGED <<genVars, retryVars, delayVars, timeoutVars, mergeVars, appVars>>

\* closeAll(): close() is called on every client the map holds now
CloseAllCall ==
  /\ closePc = "idle"
  /\ closeSnapshot' = clients
  /\ closeCalls' = [n \in Servers |-> IF n \in clients THEN closeCalls[n] + 1 ELSE closeCalls[n]]
  /\ closeState' = [n \in Servers |-> IF n \in clients THEN "closing" ELSE closeState[n]]
  /\ closePromises' = [n \in Servers |-> IF n \in clients THEN "pending" ELSE closePromises[n]]
  /\ closePc' = "pending"
  /\ UNCHANGED <<serverConfigs, clients, transports, connState, connError,
                 connectCalls, initPromises, initPc, mcpConsole>>

\* closeAll called on the manager
CloseAll ==
  /\ CloseAllCall
  /\ UNCHANGED <<genVars, retryVars, delayVars, timeoutVars, mergeVars, appVars>>

\* client.close() resolves
CloseResolves ==
  \E n \in Servers :
    /\ closeState[n] = "closing"
    /\ closeState' = [closeState EXCEPT ![n] = "closed"]
    /\ closePromises' = [closePromises EXCEPT ![n] = "fulfilled"]
    /\ UNCHANGED <<serverConfigs, clients, transports, connState, connError,
                   connectCalls, initPromises, initPc, closeSnapshot, closeCalls,
                   closePc, mcpConsole>>
    /\ UNCHANGED <<genVars, retryVars, delayVars, timeoutVars, mergeVars, appVars>>

\* client.close() rejects: .catch reports it with console.error
CloseRejects ==
  \E n \in Servers :
    /\ closeState[n] = "closing"
    /\ closeState' = [closeState EXCEPT ![n] = "failed"]
    /\ closePromises' = [closePromises EXCEPT ![n] = CaughtCloseError]
    /\ mcpConsole' = Append(mcpConsole, [stream |-> "error", what |-> "close failed", name |-> n])
    /\ UNCHANGED <<serverConfigs, clients, transports, connState, connError,
                   connectCalls, initPromises, initPc, closeSnapshot, closeCalls,
                   closePc>>
    /\ UNCHANGED <<genVars, retryVars, delayVars, timeoutVars, mergeVars, appVars>>

\* await Promise.all(closePromises) is over: both maps are cleared, unless
\* the await threw
CloseAllSettles ==
  /\ closePc = "pending"
  /\ PromiseAll(closePromises, closeSnapshot) # "pending"
  /\ closePc' = PromiseAll(closePromises, closeSnapshot)
  /\ IF closePc' = "resolved"
     THEN clients' = Cleared(clients) /\ transports' = Cleared(transports)
     ELSE UNCHANGED <<clients, transports>>
  /\ UNCHANGED <<serverConfigs, connState, connError, connectCalls, initPromises,
                 initPc, closeSnapshot, closeCalls, closeState, closePromises,
                 mcpConsole>>
  /\ UNCHANGED <<genVars, retryVars, delayVars, timeoutVars, mergeVars, appVars>>

\* generateContent / generateContentStream is called: one call of the SDK
GenerateContent ==
  /\ genPc = "idle"
  /\ sdkCalls' = sdkCalls + 1
  /\ genPc' = "pending"
  /\ UNCHANGED <<genMethod, sdkError, genThrown, genConsole>>
  /\ UNCHANGED <<mcpVars, retryVars, delayVars, timeoutVars, mergeVars, appVars>>

\* The SDK call resolves: the response (or the stream iterable) is returned
SDKResolves ==
  /\ genPc = "pending"
  /\ genPc' = "returned"
  /\ UNCHANGED <<genMethod, sdkCalls, sdkError, genThrown, genConsole>>
  /\ UNCHANGED <<mcpVars, retryVars, delayVars, timeoutVars, mergeVars, appVars>>

\* `${error}` for an Error object
ErrorText(f) == "Error: " \o f

\* throw new Error(`Failed to generate content: ${error}`)
GenerateError(method, f) ==
  Err("Error",
      <<IF method = "generateContent" THEN "Failed to generate content: "
        ELSE "Failed to generate streaming content: ", ErrorText(f)>>, 0)

\* The SDK call rejects: the catch block logs and throws a plain Error
SDKRejects ==
  \E f \in Failures :
    /\ genPc = "pending"
    /\ sdkError' = f
    /\ genConsole' = genConsole + 1
    /\ genThrown' = GenerateError(genMethod, f)
    /\ genPc' = "thrown"
    /\ UNCHANGED <<genMethod, sdkCalls>>
    /\ UNCHANGED <<mcpVars, retryVars, delayVars, timeoutVars, mergeVars, appVars>>

NextServices ==
  \/ InitializeServers
  \/ ConnectResolves
  \/ ConnectRejects
  \/ InitializeServersSettles
  \/ CloseAll
  \/ CloseResolves
  \/ CloseRejects
  \/ CloseAllSettles
  \/ GenerateContent
  \/ SDKResolves
  \/ SDKRejects

ServicesInit ==
  InitRetryIdle /\ InitDelayIdle /\ InitTimeoutIdle /\ InitMergeIdle /\ InitServices
    /\ InitAppIdle

SpecServices == ServicesInit /\ [][NextServices]_vars

\* The same when every connect, close and SDK call settles and the callers
\* make their calls
FairSpecServices == ServicesInit /\ [][NextServices]_vars /\ WF_vars(NextServices)

\* C18: a server connection or a generation request that fails with a
\* transient error has been attempted again before the failure is reported
\* (console.error of initializeServer, the error thrown by generateContent /
\* generateContentStream).
C18_TransientFailuresRetried ==
  /\ \A n \in Servers :
       (connState[n] = "failed" /\ connError[n] = "transient") => connectCalls[n] >= 2
  /\ (genPc = "thrown" /\ sdkError = "transient") => sdkCalls >= 2

\* isServerConnected / getConnectedServers / getClient all read clients
getConnectedServers == clients
isServerConnected(n) == n \in clients
HasClient(n) == n \in clients

\* C19: initializeServers makes every connect call in one step, never
\* rejects and resolves; once it has resolved (and closeAll was not called)
\* the servers reported connected are exactly the configured ones whose
\* connect succeeded, and none whose connect failed.
C19_InitializeServers ==
  /\ [][(initPc = "idle" /\ initPc' = "pending") =>
          \A n \in serverConfigs :
            connState'[n] = "connecting" /\ connectCalls'[n] = 1]_vars
  /\ [](initPc # "rejected")
  /\ <>(initPc = "resolved")
  /\ []((initPc = "resolved" /\ closePc = "idle") =>
          /\ getConnectedServers = {n \in serverConfigs : connState[n] = "connected"}
          /\ \A n \in Servers :
               /\ connState[n] = "failed" => ~isServerConnected(n) /\ ~HasClient(n)
               /\ connState[n] = "connected" => isServerConnected(n) /\ HasClient(n)
               /\ n \in serverConfigs => connState[n] \in {"connected", "failed"}
          /\ transports = clients)

\* Two servers, one connect succeeds and one fails: initializeServers has
\* resolved and only the first is connected
C19_Witness ==
  /\ serverConfigs = {ServerName(1), ServerName(2)}
  /\ initPc = "resolved" /\ closePc = "idle"
  /\ connState[ServerName(1)] = "connected" /\ connState[ServerName(2)] = "failed"
  /\ clients = {ServerName(1)}

\* C20: closeAll calls close() once on every client the manager holds when
\* it is called and on no other, never rejects and resolves, also when
\* close() calls reject; when it resolves both maps are empty, and they stay
\* empty unless a connect still in flight completes afterwards.
C20_CloseAll ==
  /\ [][(closePc = "idle" /\ closePc' = "pending") => closeSnapshot' = clients]_vars
  /\ [](closePc # "idle" =>
          \A n \in Servers : closeCalls[n] = IF n \in closeSnapshot THEN 1 ELSE 0)
  /\ [](closePc = "idle" => \A n \in Servers : closeCalls[n] = 0)
  /\ [](closePc # "rejected")
  /\ <>(closePc = "resolved")
  /\ [][(closePc = "pending" /\ closePc' = "resolved") =>
          clients' = {} /\ transports' = {}]_vars
  /\ [][(closePc = "resolved" /\ clients' # clients) =>
          \E n \in Servers : connState[n] = "connecting" /\ connState'[n] = "connected"]_vars
  /\ []((closePc = "resolved" /\ initPc = "resolved" /\ closeSnapshot = {n \in Servers : connState[n] = "connected"})
          => clients = {} /\ transports = {})

\* Two connected clients, one close() rejects: close() was called once on
\* each, closeAll has resolved and the maps are empty
C20_Witness ==
  /\ closeSnapshot = {ServerName(1), ServerName(2)}
  /\ closePc = "resolved"
  /\ closeState[ServerName(1)] = "closed" /\ closeState[ServerName(2)] = "failed"
  /\ closeCalls[ServerName(1)] = 1 /\ closeCalls[ServerName(2)] = 1
  /\ clients = {} /\ transports = {}

\* C29: once closeAll has resolved and no connect is pending, every client
\* whose connect succeeded has had close() called on it or is still in the
\* manager's map.
C29_NoClientDroppedUnclosed ==
  (closePc = "resolved" /\ \A n \in Servers : connState[n] # "connecting") =>
    \A n \in Servers :
      connState[n] = "connected" => (closeCalls[n] >= 1 \/ isServerConnected(n))

----------------------------------------------------------------------------
(* ElProfessor: chat, chatStream and the history (specification SpecAgent) *)

\* if (this.conversationHistory.length > 20)
HistoryLimit == 20

\* What the user sends, what generateContent answers, what a stream delivers
Messages == {"hello"}
ResponseTexts == {"answer"}
Chunk(i) == "c" \o ToString(i)
Streams == {[i \in 1 .. n |-> Chunk(i)] : n \in 0 .. MaxChunks}

\* { role, content, timestamp: new Date() }
ChatMessage(role, content, now) == [role |-> role, content |-> content, timestamp |-> now]

\* Array.prototype.slice(-n) on an array longer than n
SliceLast(h, n) == SubSeq(h, Len(h) - n + 1, Len(h))

\* Mutant: the history is never cut
addToHistory_NoCap(h, role, content, now) == Append(h, ChatMessage(role, content, now))

\* Mutant: the oldest 20 messages are kept
addToHistory_KeepOldest(h, role, content, now) ==
  LET pushed == Append(h, ChatMessage(role, content, now))
  IN  IF Len(pushed) > HistoryLimit THEN SubSeq(pushed, 1, HistoryLimit) ELSE pushed

\* ElProfessor.addToHistory
addToHistory(h, role, content, now) ==
  LET pushed == Append(h, ChatMessage(role, content, now))
  IN  IF Len(pushed) > HistoryLimit THEN SliceLast(pushed, HistoryLimit) ELSE pushed

\* No request is in progress: the caller can make the next one
AtRest ==
  reqPc \in {"idle", "chatReturned", "chatThrown", "streamDone", "streamThrown",
             "streamAbandoned"}

\* The history and its log after addToHistory(role, content)
Push(role, content) ==
  /\ conversationHistory' = addToHistory(conversationHistory, role, content, agentClock)
  /\ appended' = Append(appended, ChatMessage(role, content, agentClock))
  /\ agentClock' = agentClock + 1

\* chat(message) up to its await: the user message is appended and
\* generateContent is called
ChatCall(m) ==
  /\ AtRest
  /\ agentClock + 1 <= MaxAppends
  /\ Push("user", m)
  /\ reqPc' = "chat"
  /\ agentError' = Null
  /\ UNCHANGED <<streamLeft, fullResponse, yielded, failedRequests, streamRequests>>

\* chat called on the agent
Chat ==
  \E m \in Messages :
    /\ ChatCall(m)
    /\ UNCHANGED <<retryVars, delayVars, timeoutVars, mergeVars, serviceVars>>
    /\ UNCHANGED <<classifyVars, loggerVars, cliVars>>

\* generateContent resolves: the assistant message is appended, chat returns
GenerateResolves ==
  \E text \in ResponseTexts :
    /\ reqPc = "chat"
    /\ Push("assistant", text)
    /\ reqPc' = "chatReturned"
    /\ UNCHANGED <<streamLeft, fullResponse, yielded, agentError, failedRequests,
                   streamRequests>>
    /\ UNCHANGED <<retryVars, delayVars, timeoutVars, mergeVars, serviceVars>>
    /\ UNCHANGED <<classifyVars, loggerVars, cliVars>>

\* Mutant: the user message is taken back when the request fails
GenerateRejects_Rollback ==
  \E f \in Failures :
    /\ reqPc = "chat"
    /\ failedRequests < MaxFailures
    /\ failedRequests' = failedRequests + 1
    /\ agentError' = GenerateError("generateContent", f)
    /\ reqPc' = "chatThrown"
    /\ conversationHistory' = SubSeq(conversationHistory, 1, Len(conversationHistory) - 1)
    /\ UNCHANGED <<appended, agentClock, streamLeft, fullResponse, yielded, streamRequests>>
    /\ UNCHANGED <<retryVars, delayVars, timeoutVars, mergeVars, serviceVars>>
    /\ UNCHANGED <<classifyVars, loggerVars, cliVars>>

\* generateContent rejects: the await throws and chat rejects with that error
GenerateRejects ==
  \E f \in Failures :
    /\ reqPc = "chat"
    /\ failedRequests < MaxFailures
    /\ failedRequests' = failedRequests + 1
    /\ agentError' = GenerateError("generateContent", f)
    /\ reqPc' = "chatThrown"
    /\ UNCHANGED <<conversationHistory, appended, agentClock, streamLeft,
                   fullResponse, yielded, streamRequests>>
    /\ UNCHANGED <<retryVars, delayVars, timeoutVars, mergeVars, serviceVars>>
    /\ UNCHANGED <<classifyVars, loggerVars, cliVars>>

\* chatStream(message) up to its await: the user message is appended and
\* generateContentStream is called
ChatStreamCall(m) ==
  /\ AtRest
  /\ agentClock + 1 <= MaxAppends
  /\ streamRequests < MaxStreams
  /\ streamRequests' = streamRequests + 1
  /\ Push("user", m)
  /\ reqPc' = "streamOpening"
  /\ agentError' = Null
  /\ streamLeft' = <<>> /\ fullResponse' = "" /\ yielded' = <<>>
  /\ UNCHANGED failedRequests

\* chatStream called on the agent
ChatStream ==
  \E m \in Messages :
    /\ ChatStreamCall(m)
    /\ UNCHANGED <<retryVars, delayVars, timeoutVars, mergeVars, serviceVars>>
    /\ UNCHANGED <<classifyVars, loggerVars, cliVars>>

\* generateContentStream resolves: chatStream returns the iterable, nothing
\* is read yet
StreamOpens ==
  \E stream \in Streams :
    /\ reqPc = "streamOpening"
    /\ streamLeft' = stream
    /\ reqPc' = "streaming"
    /\ UNCHANGED <<conversationHistory, appended, agentClock, fullResponse, yielded,
                   agentError, failedRequests, streamRequests>>
    /\ UNCHANGED <<retryVars, delayVars, timeoutVars, mergeVars, serviceVars>>
    /\ UNCHANGED <<classifyVars, loggerVars, cliVars>>

\* generateContentStream rejects: chatStream rejects with that error
StreamOpenRejects ==
  \E f \in Failures :
    /\ reqPc = "streamOpening"
    /\ failedRequests < MaxFailures
    /\ failedRequests' = failedRequests + 1
    /\ agentError' = GenerateError("generateContentStream", f)
    /\ reqPc' = "streamThrown"
    /\ UNCHANGED <<conversationHistory, appended, agentClock, streamLeft,
                   fullResponse, yielded, streamRequests>>
    /\ UNCHANGED <<retryVars, delayVars, timeoutVars, mergeVars, serviceVars>>
    /\ UNCHANGED <<classifyVars, loggerVars, cliVars>>

\* Mutant: the chunk is put in front of what was received so far
Concat_Prepend(full, chunk) == chunk \o full

\* fullResponse += chunk
Concat(full, chunk) == full \o chunk

\* The consumer asks for the next chunk and the stream has one: it is added
\* to fullResponse and yielded
StreamChunk ==
  /\ reqPc = "streaming"
  /\ streamLeft # <<>>
  /\ fullResponse' = Concat(fullResponse, Head(streamLeft))
  /\ yielded' = Append(yielded, Head(streamLeft))
  /\ streamLeft' = Tail(streamLeft)
  /\ UNCHANGED <<conversationHistory, appended, agentClock, reqPc, agentError,
                 failedRequests, streamRequests>>
  /\ UNCHANGED <<retryVars, delayVars, timeoutVars, mergeVars, serviceVars>>
  /\ UNCHANGED <<classifyVars, loggerVars, cliVars>>

\* The consumer asks for the next chunk and the stream is over: the loop
\* ends and the assistant message is appended
StreamEnds ==
  /\ reqPc = "streaming"
  /\ streamLeft = <<>>
  /\ Push("assistant", fullResponse)
  /\ reqPc' = "streamDone"
  /\ UNCHANGED <<streamLeft, fullResponse, yielded, agentError, failedRequests,
                 streamRequests>>
  /\ UNCHANGED <<retryVars, delayVars, timeoutVars, mergeVars, serviceVars>>
  /\ UNCHANGED <<classifyVars, loggerVars, cliVars>>

\* The consumer stops iterating (break, return, never iterates) or the SDK
\* stream throws: the generator is finished before its last statement
StreamAbandoned ==
  /\ reqPc = "streaming"
  /\ failedRequests < MaxFailures
  /\ failedRequests' = failedRequests + 1
  /\ reqPc' = "streamAbandoned"
  /\ UNCHANGED <<conversationHistory, appended, agentClock, streamLeft,
                 fullResponse, yielded, agentError, streamRequests>>
  /\ UNCHANGED <<retryVars, delayVars, timeoutVars, mergeVars, serviceVars>>
  /\ UNCHANGED <<classifyVars, loggerVars, cliVars>>

\* clearHistory(): the history becomes the empty array
ClearHistoryCall ==
  /\ conversationHistory' = <<>>
  /\ appended' = <<>>
  /\ UNCHANGED <<agentClock, reqPc, streamLeft, fullResponse, yielded, agentError,
                 failedRequests, streamRequests>>

\* clearHistory called on the agent (with something to clear)
ClearHistory ==
  /\ conversationHistory # <<>> \/ appended # <<>>
  /\ ClearHistoryCall
  /\ UNCHANGED <<retryVars, delayVars, timeoutVars, mergeVars, serviceVars>>
  /\ UNCHANGED <<classifyVars, loggerVars, cliVars>>

NextAgent ==
  \/ Chat
  \/ GenerateResolves
  \/ GenerateRejects
  \/ ChatStream
  \/ StreamOpens
  \/ StreamOpenRejects
  \/ StreamChunk
  \/ StreamEnds
  \/ StreamAbandoned
  \/ ClearHistory

AgentInit ==
  /\ InitRetryIdle /\ InitDelayIdle /\ InitTimeoutIdle /\ InitMergeIdle
  /\ InitServicesIdle /\ InitAgent
  /\ InitClassifyIdle /\ InitLoggerIdle /\ InitCLIIdle

SpecAgent == AgentInit /\ [][NextAgent]_vars

\* The last element of a non-empty sequence
Last(q) == q[Len(q)]

\* C21: the history holds at most 20 messages and is the most recent
\* min(20, k) of the k messages appended since the last clearHistory, in the
\* order they were appended.
C21_HistoryBounded ==
  LET k == Len(appended)
  IN  /\ Len(conversationHistory) <= 20
      /\ Len(conversationHistory) = IF k < 20 THEN k ELSE 20
      /\ conversationHistory = SubSeq(appended, k - Len(conversationHistory) + 1, k)
      /\ \A i \in 1 .. Len(conversationHistory) - 1 :
           conversationHistory[i].timestamp < conversationHistory[i + 1].timestamp

\* 22 messages were appended: the history is the last 20 of them
C21_Witness ==
  /\ Len(appended) = 22
  /\ Len(conversationHistory) = 20
  /\ conversationHistory[1] = appended[3]
  /\ conversationHistory[20] = appended[22]

\* A chatStream request has not (or not yet) been consumed to completion
StreamUnfinished ==
  reqPc \in {"streamOpening", "streaming", "streamAbandoned", "streamThrown"}

\* C22: chatStream appends the user message when it is called; it appends
\* one assistant message, the concatenation in order of the chunks yielded,
\* in the step that finds the stream finished, and none before: while the
\* stream is being consumed, or after the consumer has stopped early, the
\* last message appended is still the user message (until the next request
\* is made).
C22_StreamHistory ==
  /\ [][(reqPc # "streamOpening" /\ reqPc' = "streamOpening") =>
          \E m \in Messages :
            appended' = Append(appended, ChatMessage("user", m, agentClock))]_vars
  /\ [](StreamUnfinished => (appended = <<>> \/ Last(appended).role = "user"))
  /\ [][(StreamUnfinished /\ StreamUnfinished' /\ reqPc' # "streamOpening") =>
          (appended' = appended \/ appended' = <<>>)]_vars
  /\ [][(reqPc = "streaming" /\ reqPc' = "streamDone") =>
          /\ streamLeft = <<>>
          /\ appended' = Append(appended, ChatMessage("assistant", Join(yielded), agentClock))
          /\ Last(conversationHistory') = Last(appended')]_vars
  /\ [][(reqPc = "streamDone" /\ reqPc' = "streamDone") =>
          (appended' = appended \/ appended' = <<>>)]_vars

\* A stream of two chunks was consumed to its end: the history ends with
\* the user message and the assistant message "c1c2"
C22_Witness ==
  /\ reqPc = "streamDone"
  /\ yielded = <<Chunk(1), Chunk(2)>>
  /\ Len(conversationHistory) >= 2
  /\ Last(conversationHistory).role = "assistant"
  /\ Last(conversationHistory).content = "c1c2"
  /\ conversationHistory[Len(conversationHistory) - 1].role = "user"

\* C30: when generateContent fails during chat the error reaches the caller
\* and the history is left as it is: its last message is the user message
\* of the failed request (unless clearHistory emptied it meanwhile), and
\* the next chat puts a second user message right after it.
C30_FailedChatKeepsUserMessage ==
  /\ [][(reqPc = "chat" /\ reqPc' = "chatThrown") =>
          /\ conversationHistory' = conversationHistory
          /\ conversationHistory # <<>> => Last(conversationHistory).role = "user"
          /\ \E f \in Failures : agentError' = GenerateError("generateContent", f)]_vars
  /\ [](reqPc = "chatThrown" =>
          /\ Truthy(agentError)
          /\ conversationHistory # <<>> => Last(conversationHistory).role = "user")
  /\ [][(reqPc = "chatThrown" /\ reqPc' = "chat" /\ conversationHistory # <<>>) =>
          LET n == Len(conversationHistory')
          IN  /\ n >= 2
              /\ conversationHistory'[n].role = "user"
              /\ conversationHistory'[n - 1].role = "user"]_vars

\* A chat failed and the next chat has been made: two user messages in a row
C30_Witness ==
  /\ reqPc = "chat" /\ failedRequests = 1
  /\ Len(conversationHistory) = 2
  /\ conversationHistory[1].role = "user" /\ conversationHistory[2].role = "user"

----------------------------------------------------------------------------
(* ErrorHandler.isRetryableError on its own (specification SpecClassify) *)

\* how many times the predicate is applied to the same value
MaxClassifyCalls == 2

\* JavaScript undefined
Undef == [cls |-> "undefined", message |-> <<>>, id |-> 0]

\* Text fragments of the messages
Fragments ==
  {"rate limit", "timeout", "service unavailable", "Rate Limit", "quota", " exceeded"}

\* Messages of up to two fragments
ClassifyMessages ==
  {<<>>} \cup {<<a>> : a \in Fragments} \cup {<<a, b>> : a, b \in Fragments}

\* The values handed to the predicate: null, undefined, an object that is
\* not an Error ({ message }), and instances of Error and of the error
\* classes of part_001:505-558
ClassifyArgs ==
  {Null, Undef}
    \cup {Err(cls, message, 0) :
            cls \in {"Object", "Error", "ElProfessorError", "ConfigurationError",
                     "MCPConnectionError", "GenAIError"},
            message \in ClassifyMessages}

InitClassify ==
  /\ classifyArg \in ClassifyArgs
  /\ classifyResults = <<>>

\* ErrorHandler.isRetryableError(classifyArg) is called
Classify ==
  /\ Len(classifyResults) < MaxClassifyCalls
  /\ classifyResults' = Append(classifyResults, isRetryableError(classifyArg))
  /\ UNCHANGED classifyArg
  /\ UNCHANGED <<retryVars, delayVars, timeoutVars, mergeVars, serviceVars>>
  /\ UNCHANGED <<agentVars, loggerVars, cliVars>>

NextClassify == Classify

ClassifyInit ==
  /\ InitRetryIdle /\ InitDelayIdle /\ InitTimeoutIdle /\ InitMergeIdle
  /\ InitServicesIdle /\ InitAgent
  /\ InitClassify /\ InitLoggerIdle /\ InitCLIIdle

SpecClassify == ClassifyInit /\ [][NextClassify]_vars

\* C26: isRetryableError returns, every time it is applied to a value and
\* without changing it, true for an MCPConnectionError, true for a
\* GenAIError exactly when its message contains 'rate limit', 'timeout' or
\* 'service unavailable', and false for any other value: null, undefined, a
\* plain Error, another ElProfessorError, an object that is not an Error.
C26_RetryableClassification ==
  /\ [][classifyArg' = classifyArg]_vars
  /\ [](\A i \in 1 .. Len(classifyResults) :
          classifyResults[i] =
            CASE classifyArg.cls = "MCPConnectionError" -> TRUE
              [] classifyArg.cls = "GenAIError" ->
                   \E j \in 1 .. Len(classifyArg.message) :
                     classifyArg.message[j] \in {"rate limit", "timeout", "service unavailable"}
              [] OTHER -> FALSE)

\* A GenAIError 'Rate Limit exceeded' (other case) was classified twice:
\* false both times
C26_Witness ==
  /\ classifyArg = Err("GenAIError", <<"Rate Limit", " exceeded">>, 0)
  /\ classifyResults = <<FALSE, FALSE>>

----------------------------------------------------------------------------
(* Logger (specification SpecLogger) *)

\* how many calls of the logger's methods a behaviour holds
MaxLogCalls == 3

LowerCase ==
  <<"a", "b", "c", "d", "e", "f", "g", "h", "i", "j", "k", "l", "m", "n", "o", "p", "q", "r", "s", "t", "u", "v", "w", "x", "y", "z">>

UpperCase ==
  <<"A", "B", "C", "D", "E", "F", "G", "H", "I", "J", "K", "L", "M", "N", "O", "P", "Q", "R", "S", "T", "U", "V", "W", "X", "Y", "Z">>

\* String.prototype.toUpperCase on one character
UpperChar(c) ==
  IF \E i \in 1 .. Len(LowerCase) : LowerCase[i] = c
  THEN UpperCase[CHOOSE i \in 1 .. Len(LowerCase) : LowerCase[i] = c]
  ELSE c

\* String.prototype.toUpperCase
toUpperCase(text) == [i \in 1 .. Len(text) |-> UpperChar(text[i])]

\* The switch of getLogLevelFromEnv
LevelNamed(level) ==
  CASE level = <<"E", "R", "R", "O", "R">> -> ERROR
    [] level = <<"W", "A", "R", "N">> -> WARN
    [] level = <<"I", "N", "F", "O">> -> INFO
    [] level = <<"D", "E", "B", "U", "G">> -> DEBUG
    [] OTHER -> INFO

\* getLogLevelFromEnv comparing the variable as it is written
getLogLevelFromEnv_CaseSensitive(env) ==
  IF env.set THEN LevelNamed(env.text) ELSE INFO

\* Logger.getLogLevelFromEnv: process.env.LOG_LEVEL?.toUpperCase(), then
\* the switch; undefined takes the default branch
getLogLevelFromEnv(env) ==
  IF env.set THEN LevelNamed(toUpperCase(env.text)) ELSE INFO

\* The values of LOG_LEVEL of the model
EnvValues ==
  {EnvUnset,
     EnvSet(<<>>),
     EnvSet(<<"d", "e", "b", "u", "g">>),
     EnvSet(<<"D", "E", "B", "U", "G">>),
     EnvSet(<<"D", "e", "b", "u", "g">>),
     EnvSet(<<"d", "E", "b", "U", "g">>),
     EnvSet(<<"w", "a", "r", "n">>),
     EnvSet(<<"W", "A", "R", "N">>),
     EnvSet(<<"W", "a", "r", "n">>),
     EnvSet(<<"e", "r", "r", "o", "r">>),
     EnvSet(<<"E", "R", "R", "O", "R">>),
     EnvSet(<<"E", "r", "r", "o", "r">>),
     EnvSet(<<"i", "n", "f", "o">>),
     EnvSet(<<"I", "N", "F", "O">>),
     EnvSet(<<"i", "N", "f", "O">>),
     EnvSet(<<"v", "e", "r", "b", "o", "s", "e">>),
     EnvSet(<<"V", "E", "R", "B", "O", "S", "E">>),
     EnvSet(<<" ", "d", "e", "b", "u", "g">>),
     EnvSet(<<"d", "e", "b", "u", "g", " ">>),
     EnvSet(<<"w", "a", "r", "n", "i", "n", "g">>),
     EnvSet(<<"3">>),
     EnvSet(<<"t", "r", "a", "c", "e">>)}

\* The arguments of setLogLevel: the enum's members, and numbers beside them
SetLevelInputs == (ERROR - 1) .. (DEBUG + 1)

InitLogger ==
  /\ envLogLevel \in EnvValues
  /\ loggerCreated = FALSE
  /\ loggerLevel = INFO
  /\ loggerCalls = <<>>
  /\ loggerConsole = <<>>

LoggerFrame ==
  /\ UNCHANGED <<retryVars, delayVars, timeoutVars, mergeVars, serviceVars>>
  /\ UNCHANGED <<agentVars, classifyVars, cliVars>>

\* Logger.getInstance the first time: the constructor reads the environment
GetInstance ==
  /\ ~loggerCreated
  /\ loggerCreated' = TRUE
  /\ loggerLevel' = getLogLevelFromEnv(envLogLevel)
  /\ UNCHANGED <<envLogLevel, loggerCalls, loggerConsole>>
  /\ LoggerFrame

\* A method of the logger whose level is L: it writes to the console's
\* stream when this.logLevel >= L
LogAt(method, L, stream) ==
  /\ loggerCreated
  /\ Len(loggerCalls) < MaxLogCalls
  /\ loggerCalls' = Append(loggerCalls, [method |-> method, level |-> L])
  /\ loggerConsole' =
       IF loggerLevel >= L
       THEN Append(loggerConsole,
                   [stream |-> stream, level |-> L, call |-> Len(loggerCalls) + 1])
       ELSE loggerConsole
  /\ UNCHANGED <<envLogLevel, loggerCreated, loggerLevel>>
  /\ LoggerFrame

\* Logger.error
LogError == LogAt("error", ERROR, "console.error")

\* Logger.warn
LogWarn == LogAt("warn", WARN, "console.warn")

\* Logger.info
LogInfo == LogAt("info", INFO, "console.log")

\* Logger.debug
LogDebug == LogAt("debug", DEBUG, "console.log")

\* Logger.setLogLevel(level)
SetLogLevel ==
  \E level \in SetLevelInputs :
    /\ loggerCreated
    /\ Len(loggerCalls) < MaxLogCalls
    /\ loggerLevel' = level
    /\ loggerCalls' = Append(loggerCalls, [method |-> "setLogLevel", level |-> level])
    /\ UNCHANGED <<envLogLevel, loggerCreated, loggerConsole>>
    /\ LoggerFrame

NextLogger ==
  \/ GetInstance
  \/ LogError
  \/ LogWarn
  \/ LogInfo
  \/ LogDebug
  \/ SetLogLevel

LoggerInit ==
  /\ InitRetryIdle /\ InitDelayIdle /\ InitTimeoutIdle /\ InitMergeIdle
  /\ InitServicesIdle /\ InitAgent
  /\ InitClassifyIdle /\ InitLogger /\ InitCLIIdle

SpecLogger == LoggerInit /\ [][NextLogger]_vars

\* The level LOG_LEVEL names when case is ignored, INFO when it names none
NamedLevel(env) ==
  IF ~env.set THEN INFO
  ELSE IF env.text \in {<<"e", "r", "r", "o", "r">>, <<"E", "R", "R", "O", "R">>,
                        <<"E", "r", "r", "o", "r">>} THEN ERROR
  ELSE IF env.text \in {<<"w", "a", "r", "n">>, <<"W", "A", "R", "N">>,
                        <<"W", "a", "r", "n">>} THEN WARN
  ELSE IF env.text \in {<<"d", "e", "b", "u", "g">>, <<"D", "E", "B", "U", "G">>,
                        <<"D", "e", "b", "u", "g">>, <<"d", "E", "b", "U", "g">>} THEN DEBUG
  ELSE INFO

\* The level in force when call i of the logger is made: the argument of the
\* latest setLogLevel before it, the level of the environment without one
LevelInForce(i) ==
  LET sets == {j \in 1 .. (i - 1) : loggerCalls[j].method = "setLogLevel"}
  IN  IF sets = {} THEN NamedLevel(envLogLevel)
      ELSE loggerCalls[CHOOSE j \in sets : \A k \in sets : k <= j].level

\* Call i of the logger reached the console
Written(i) == \E k \in 1 .. Len(loggerConsole) : loggerConsole[k].call = i

----------------------------------------------------------------------------
(* main and CLIInterface (specification SpecCLI) *)

\* how many inputs the user types in a behaviour
MaxInputs == 3

\* The signals main installs a handler for
Signals == {"SIGINT", "SIGTERM"}

\* new CLIInterface() in a configuration with some MCP servers enabled
InitCLI ==
  /\ serverConfigs \in SUBSET Servers
  /\ InitMCP
  /\ genMethod = "generateContent" /\ InitGenAI
  /\ InitAgent
  /\ InitCLIIdle

CLIFrame ==
  /\ UNCHANGED <<retryVars, delayVars, timeoutVars, mergeVars, genVars>>
  /\ UNCHANGED <<classifyVars, loggerVars>>

\* The process is alive and the signal handlers are installed
Running == cliPc \notin {"idle", "exited"}

\* The await of the request handleInput is in has thrown
HandlingThrew == reqPc \in {"chatThrown", "streamThrown", "streamAbandoned"}

\* The await of the request handleInput is in has returned
HandlingReturned == reqPc \in {"chatReturned", "streamDone"}

\* main: the handlers are installed, cli.start() runs agent.initialize()
\* up to the await of initializeServers
Start ==
  /\ cliPc = "idle"
  /\ InitializeServersCall
  /\ cliPc' = "starting"
  /\ UNCHANGED <<cliErrors, prompts, finished, exitCode, exitReason, rlClosed>>
  /\ UNCHANGED agentVars
  /\ CLIFrame

\* A server's client.connect resolves during start
ServerConnects == cliPc = "starting" /\ ConnectResolves

\* A server's client.connect rejects during start
ServerConnectFails == cliPc = "starting" /\ ConnectRejects

\* The await of initializeServers is over
ServersSettle == cliPc = "starting" /\ InitializeServersSettles

\* rl.question('> ', callback)
startInteractiveSession == prompts' = prompts + 1

\* start() goes on: showWelcome, then the first prompt
StartResolves ==
  /\ cliPc = "starting"
  /\ initPc = "resolved"
  /\ cliPc' = "prompt"
  /\ startInteractiveSession
  /\ UNCHANGED <<cliErrors, finished, exitCode, exitReason, rlClosed>>
  /\ UNCHANGED <<mcpVars, agentVars>>
  /\ CLIFrame

\* The user enters a line that is handled without an await of the agent
\* (the empty line, /history, a command without its argument, an unknown
\* command): handleInput returns and the callback issues the next prompt
InputLocal ==
  /\ cliPc = "prompt"
  /\ finished < MaxInputs
  /\ finished' = finished + 1
  /\ startInteractiveSession
  /\ UNCHANGED <<cliPc, cliErrors, exitCode, exitReason, rlClosed>>
  /\ UNCHANGED <<mcpVars, agentVars>>
  /\ CLIFrame

\* The user enters /clear
InputClear ==
  /\ cliPc = "prompt"
  /\ finished < MaxInputs
  /\ ClearHistoryCall
  /\ finished' = finished + 1
  /\ startInteractiveSession
  /\ UNCHANGED <<cliPc, cliErrors, exitCode, exitReason, rlClosed>>
  /\ UNCHANGED mcpVars
  /\ CLIFrame

\* The user enters a question (askAWSQuestion) or /terraform, /cdk,
\* /diagram, /docs with a description: handleInput runs up to the await
\* inside ElProfessor.chat
InputChat ==
  \E m \in Messages :
    /\ cliPc = "prompt"
    /\ finished < MaxInputs
    /\ ChatCall(m)
    /\ cliPc' = "handling"
    /\ UNCHANGED <<cliErrors, prompts, finished, exitCode, exitReason, rlClosed>>
    /\ UNCHANGED mcpVars
    /\ CLIFrame

\* The user enters /stream <message>: up to the await inside chatStream
InputStream ==
  \E m \in Messages :
    /\ cliPc = "prompt"
    /\ finished < MaxInputs
    /\ ChatStreamCall(m)
    /\ cliPc' = "handling"
    /\ UNCHANGED <<cliErrors, prompts, finished, exitCode, exitReason, rlClosed>>
    /\ UNCHANGED mcpVars
    /\ CLIFrame

\* The agent's request of the input being handled goes on
ChatResolves == cliPc = "handling" /\ GenerateResolves

ChatRejects == cliPc = "handling" /\ GenerateRejects

StreamResolves == cliPc = "handling" /\ StreamOpens

StreamRejects == cliPc = "handling" /\ StreamOpenRejects

\* for await (const chunk of stream) process.stdout.write(chunk)
StreamWrites == cliPc = "handling" /\ StreamChunk

StreamCompletes == cliPc = "handling" /\ StreamEnds

\* The SDK's stream throws while the loop reads it
StreamThrows == cliPc = "handling" /\ StreamAbandoned

\* The awaited request returned: its output is printed, handleInput returns
\* and the callback issues the next prompt
HandlingCompletes ==
  /\ cliPc = "handling"
  /\ HandlingReturned
  /\ finished' = finished + 1
  /\ cliPc' = "prompt"
  /\ startInteractiveSession
  /\ UNCHANGED <<cliErrors, exitCode, exitReason, rlClosed>>
  /\ UNCHANGED <<mcpVars, agentVars>>
  /\ CLIFrame

\* Mutant: the error leaves handleInput and ends the process
HandlingThrows_Uncaught ==
  /\ cliPc = "handling"
  /\ HandlingThrew
  /\ cliPc' = "exited"
  /\ exitCode' = 1
  /\ exitReason' = "uncaught"
  /\ UNCHANGED <<cliErrors, prompts, finished, rlClosed>>
  /\ UNCHANGED <<mcpVars, agentVars>>
  /\ CLIFrame

\* The awaited request threw: handleInput's catch prints the error with
\* console.error, handleInput returns and the callback issues the next prompt
HandlingThrows ==
  /\ cliPc = "handling"
  /\ HandlingThrew
  /\ cliErrors' = cliErrors + 1
  /\ finished' = finished + 1
  /\ cliPc' = "prompt"
  /\ startInteractiveSession
  /\ UNCHANGED <<exitCode, exitReason, rlClosed>>
  /\ UNCHANGED <<mcpVars, agentVars>>
  /\ CLIFrame

\* The user enters /exit: CLIInterface.shutdown runs agent.shutdown up to
\* the await inside closeAll
InputExit ==
  /\ cliPc = "prompt"
  /\ CloseAllCall
  /\ cliPc' = "shuttingDown"
  /\ UNCHANGED <<cliErrors, prompts, finished, exitCode, exitReason, rlClosed>>
  /\ UNCHANGED agentVars
  /\ CLIFrame

\* A client's close() resolves during shutdown
ClientCloses == cliPc = "shuttingDown" /\ CloseResolves

\* A client's close() rejects during shutdown
ClientCloseFails == cliPc = "shuttingDown" /\ CloseRejects

\* The await inside closeAll is over
ShutdownSettles == cliPc = "shuttingDown" /\ CloseAllSettles

\* agent.shutdown() returned: rl.close(), then process.exit(0)
ExitCompletes ==
  /\ cliPc = "shuttingDown"
  /\ closePc = "resolved"
  /\ rlClosed' = TRUE
  /\ exitCode' = 0
  /\ exitReason' = "/exit"
  /\ cliPc' = "exited"
  /\ UNCHANGED <<cliErrors, prompts, finished>>
  /\ UNCHANGED <<mcpVars, agentVars>>
  /\ CLIFrame

\* SIGINT or SIGTERM arrives: the handler logs and calls process.exit(0)
Signal ==
  \E sig \in Signals :
    /\ Running
    /\ exitCode' = 0
    /\ exitReason' = sig
    /\ cliPc' = "exited"
    /\ UNCHANGED <<cliErrors, prompts, finished, rlClosed>>
    /\ UNCHANGED <<mcpVars, agentVars>>
    /\ CLIFrame

NextCLI ==
  \/ Start
  \/ ServerConnects
  \/ ServerConnectFails
  \/ ServersSettle
  \/ StartResolves
  \/ InputLocal
  \/ InputClear
  \/ InputChat
  \/ InputStream
  \/ ChatResolves
  \/ ChatRejects
  \/ StreamResolves
  \/ StreamRejects
  \/ StreamWrites
  \/ StreamCompletes
  \/ StreamThrows
  \/ HandlingCompletes
  \/ HandlingThrows
  \/ InputExit
  \/ ClientCloses
  \/ ClientCloseFails
  \/ ShutdownSettles
  \/ ExitCompletes
  \/ Signal

CLIInit ==
  /\ InitRetryIdle /\ InitDelayIdle /\ InitTimeoutIdle /\ InitMergeIdle
  /\ InitCLI
  /\ InitClassifyIdle /\ InitLoggerIdle

SpecCLI == CLIInit /\ [][NextCLI]_vars

\* C23: an error thrown while an input is handled is caught and printed by
\* handleInput and the next prompt follows, the process exits only by /exit
\* or a signal, and inputs are handled one at a time: the prompt after an
\* input is issued when its handling is over, never before.
C23_ErrorsCaughtLoopContinues ==
  /\ [][(cliPc = "handling" /\ HandlingThrew /\ cliPc' # cliPc)
          => \/ exitReason' \in Signals
             \/ /\ cliErrors' = cliErrors + 1
                /\ cliPc' = "prompt"
                /\ prompts' = prompts + 1
                /\ exitCode' = -1]_vars
  /\ [](cliPc \in {"prompt", "handling", "shuttingDown"} => prompts = finished + 1)
  /\ [](cliPc = "prompt" => cliErrors = failedRequests)
  /\ [](cliPc = "exited" => exitCode = 0 /\ exitReason \in Signals \cup {"/exit"})

\* A question failed, its error was printed, and the next question was
\* asked at the prompt that followed and answered
C23_Witness ==
  /\ cliErrors = 1
  /\ finished = 2
  /\ prompts = 3
  /\ cliPc = "prompt"
  /\ reqPc = "chatReturned"

\* After /exit the process exits once closeAll has closed every connected
\* client and cleared the maps
ExitCommandShutsDown ==
  (cliPc = "exited" /\ exitReason = "/exit")
    => /\ closePc = "resolved"
       /\ clients = {}
       /\ rlClosed
       /\ \A n \in Servers : connState[n] = "connected" => closeCalls[n] = 1

\* C24: when the process has exited on SIGINT or SIGTERM, the agent's
\* shutdown has completed: close() was called on every connected MCP client
\* and the client map is empty.
C24_SignalShutsDownGracefully ==
  (cliPc = "exited" /\ exitReason \in Signals)
    => /\ clients = {}
       /\ \A n \in Servers : connState[n] = "connected" => closeCalls[n] >= 1

====
